---------------------------- MODULE Spec2Model ----------------------------
(***************************************************************************)
(* A model of the runtime core of the survivors game: the weapon cadence   *)
(* scheduler and its attack pool (weapons.py, attack_old.py), the          *)
(* collectables (collectables.py), the actors (game_actors.py), the        *)
(* orchestrator tick (game.py) and the top-level state machine             *)
(* (survivors.py).                                                         *)
(*                                                                         *)
(* Time is the value returned by time(), counted in tenths of a second:    *)
(* every duration of the program that the model uses (ATTACK_DELAY = 0.2,  *)
(* the frequency and duration columns of the progression tables) is a      *)
(* whole number of tenths.  The pygame rectangles are not computed:        *)
(* whether two rectangles overlap at a step is an input of the step, so    *)
(* every overlap pattern is explored.  Positions are computed in           *)
(* SpecPlayer, SpecSpawn and SpecCharger.                                  *)
(*                                                                         *)
(* The program is studied through several specifications over the same     *)
(* operators:                                                              *)
(*   SpecWeapon    one Weapon object driven through its public methods     *)
(*   SpecAttack    the same Weapon with monsters in reach of its attacks   *)
(*   SpecGame      the top-level update() of survivors.py, Game.update     *)
(*                 included                                                *)
(*   SpecCondense  XP.condense applied to a pool                           *)
(*   SpecCharger   one Charger updated against the player                  *)
(*   SpecMonster   one Monster updated against the player                  *)
(*   SpecPlayer    the Player's move, and a Monster's, with the positions  *)
(*                 computed                                                *)
(*   SpecSpawn     the place a Monster is built at, around the screen      *)
(*   SpecMenu      the LEVEL_UP state: a Level_Up menu over the weapons    *)
(*   SpecStage     the condensation of Game.update on large pools          *)
(*   SpecTimer     the spawn timer of a Game built with the tuple          *)
(*                 SPAWN_RATE of constants.py                              *)
(***************************************************************************)
EXTENDS Integers, Sequences, FiniteSets, TLC

VARIABLES
    now,            \* the wall clock, time(), in tenths of a second
    weapon,         \* the Weapon object's fields, its attacks included
    mob_list,       \* the monsters handed to Weapon.update
    cycle,          \* history: the spawns of the weapon's cadence cycles
    swept,          \* history: what the last attack sweep did to each entry
    call,           \* history: the last call that asked for a weapon level
    collectables,   \* a pool of collectables handed to XP.condense
    condensed,      \* history: the last condense call and the pool it saw
    state,          \* survivors.py: the global state
    game,           \* survivors.py: the global game, a Game object
    time_paused,    \* survivors.py: the global time_paused
    level_up,       \* survivors.py: the global level_up, a Level_Up object
    trail,          \* history of the run of update()
    actor,          \* an actor of game_actors.py studied on its own
    target,         \* the player that actor is updated against
    acted           \* history: what the actor's last update did

weaponVars == <<now, weapon, mob_list, cycle, swept, call>>
poolVars == <<collectables, condensed>>
gameVars == <<state, game, time_paused, level_up, trail>>
actorVars == <<actor, target, acted>>
vars == <<weaponVars, poolVars, gameVars, actorVars>>

---------------------------------------------------------------------------
(* Bounds of the model.                                                    *)

MaxTime == 8
MaxDt == 2
MaxAttacks == 2
MaxOverkill == 1
MaxLevelChanges == 2

PoolSize == 3

MaxFrames == 12
\* the calls of update() the spawn timer of a Game is followed for
MaxTimerFrames == 23
\* the calls of update() a LEVEL_UP state is followed for
MaxMenuFrames == 5
\* the condensations a large pool of collectables is followed for
MaxStageTicks == 1

(* Program constants, in tenths of a second where they are durations.      *)

ATTACK_DELAY == 2
SPAWN_RATE == <<20, 20, 15, 15, 10, 10, 5, 5>>
CONDENSE_THRESHOLD == 50
CONDENSE_AMOUNT == 10
CONDENSE_DISTANCE == <<20, 40, 60>>
HEAL_VALUE == 20
LEVEL_CAP_BASE == 20
PLAYER_HEALTH == 200
HURT_COOLDOWN == 100
LEVEL_W == 2250
LEVEL_H == 1500
HALF_LEVEL_W == LEVEL_W \div 2
HALF_LEVEL_H == LEVEL_H \div 2
PLAYER_W == 16
PLAYER_H == 32
PLAYER_SPEED == 5
WIDTH == 1024
HEIGHT == 768
SPAWN_DISTANCE == 50
LEVEL_UP_CHOICES_COUNT == 3

\* the level Game.__init__ builds its weapon at
StartingLevels == {0, 1}

---------------------------------------------------------------------------
(* Sequences.                                                              *)

RemoveAt(s, i) == [j \in 1..(Len(s) - 1) |-> IF j < i THEN s[j] ELSE s[j + 1]]

Min(a, b) == IF a <= b THEN a ELSE b

Max(a, b) == IF a >= b THEN a ELSE b

---------------------------------------------------------------------------
(* Progression tables: the rows a weapon's csv file may hold.  Row l + 1   *)
(* of the sequence is the row of level l.                                  *)

Row(q, f, dur, p, spd, dmg) ==
    [quantity |-> q, frequency |-> f, duration |-> dur, pierce |-> p,
     speed |-> spd, damage |-> dmg]

Progressions ==
    { << Row(0, 3, 2, 1, 1, 1), Row(1, 4, 2, -1, 1, 1), Row(2, 5, 3, 2, 2, 1) >> }

---------------------------------------------------------------------------
(* Monsters as the attacks see them (game_actors.py, Base_Actor).          *)

Mob(h) == [health |-> h, alive |-> TRUE, damage_death |-> FALSE]

\* Base_Actor.hurt
hurt(m, damage) ==
    LET h == m.health - damage
    IN  IF h <= 0
        THEN [m EXCEPT !.health = h, !.damage_death = TRUE, !.alive = FALSE]
        ELSE [m EXCEPT !.health = h]

---------------------------------------------------------------------------
(* Attacks (attack_old.py).  Three fields are history: pierce0 is the      *)
(* pierce the attack was created with, hits the number of damaging hits so *)
(* far, ended_at the value of hits when collision set exists to false (0   *)
(* while it has not), expired whether check_duration has ended the attack. *)

Attack(speed, damage, duration, pierce, t) ==
    [speed |-> speed, damage |-> damage, duration |-> duration,
     pierce |-> pierce, spawn_time |-> t, exists |-> TRUE,
     pierce0 |-> pierce, hits |-> 0, ended_at |-> 0, expired |-> FALSE]

\* a hit that ends the attack one hit late: pierce is tested before it is
\* decremented
pierce_after_hit_late(a) ==
    IF a.pierce # -1
    THEN [pierce |-> a.pierce - 1, ended |-> a.pierce = 0]
    ELSE [pierce |-> a.pierce, ended |-> FALSE]

\* Weapon.collision of attack_old.py, lines 104-107: the pierce after a hit,
\* and whether the hit ends the attack
pierce_after_hit(a) ==
    IF a.pierce # -1
    THEN [pierce |-> a.pierce - 1, ended |-> a.pierce - 1 = 0]
    ELSE [pierce |-> a.pierce, ended |-> FALSE]

\* Weapon.collision of attack_old.py; idx is collidelist's answer, 0 for -1
collision(a, mobs, idx) ==
    IF idx # 0
    THEN LET p == pierce_after_hit(a)
         IN  [a |-> [a EXCEPT !.pierce = p.pierce,
                              !.exists = IF p.ended THEN FALSE ELSE @,
                              !.hits = @ + 1,
                              !.ended_at = IF p.ended THEN a.hits + 1 ELSE @],
              mobs |-> [mobs EXCEPT ![idx] = hurt(@, a.damage)]]
    ELSE [a |-> a, mobs |-> mobs]

\* Weapon.move of attack_old.py: speed steps, collision at each
RECURSIVE move(_, _, _, _)
move(a, mobs, col, i) ==
    IF i > a.speed
    THEN [a |-> a, mobs |-> mobs]
    ELSE LET r == collision(a, mobs, col[i])
         IN  move(r.a, r.mobs, col, i + 1)

\* a check_duration that ends the attack only after the duration is exceeded
check_duration_late(a, t) ==
    IF t - a.spawn_time > a.duration
    THEN [a EXCEPT !.exists = FALSE, !.expired = TRUE]
    ELSE a

\* Weapon.check_duration of attack_old.py
check_duration(a, t) ==
    IF t - a.spawn_time >= a.duration
    THEN [a EXCEPT !.exists = FALSE, !.expired = TRUE]
    ELSE a

\* Projectile.update of attack_old.py
attack_update(a, mobs, col, t) ==
    LET r == move(a, mobs, col, 1)
    IN  [a |-> check_duration(r.a, t), mobs |-> r.mobs]

---------------------------------------------------------------------------
(* Weapon (weapons.py).                                                    *)

\* Weapon.set_weapon_stats
set_weapon_stats(w) ==
    LET row == w.progression[w.level + 1]
        delays == [i \in 1..row.quantity |-> w.delay]
        rest == row.frequency - w.delay * row.quantity
    IN  [w EXCEPT !.speed = row.speed, !.damage = row.damage,
                  !.duration = row.duration, !.pierce = row.pierce,
                  !.quantity = row.quantity, !.frequency = row.frequency,
                  !.attack_interval = (@ \o delays) \o <<rest>>]

\* Weapon.__init__
Weapon(prog, starting_level, t) ==
    set_weapon_stats(
        [progression |-> prog, level |-> starting_level,
         level_cap |-> Len(prog) - 1, max_level |-> FALSE,
         starting_time |-> t, delay |-> ATTACK_DELAY,
         attack_interval |-> <<>>, attack_interval_index |-> 0,
         attacks |-> <<>>,
         speed |-> 0, damage |-> 0, duration |-> 0, pierce |-> 0,
         quantity |-> 0, frequency |-> 0])

\* Weapon.set_weapon_level
\* a set_weapon_level that brings a level outside the table into it
set_weapon_level_clamped(w, new_level) ==
    LET l == IF new_level < 0 THEN 0 ELSE Min(new_level, w.level_cap)
    IN  set_weapon_stats(
            [w EXCEPT !.level = l,
                      !.max_level = IF l = w.level_cap THEN TRUE ELSE @])

set_weapon_level(w, new_level) ==
    IF new_level >= 0 /\ new_level <= w.level_cap
    THEN set_weapon_stats(
             [w EXCEPT !.level = new_level,
                       !.max_level = IF new_level = w.level_cap THEN TRUE ELSE @])
    ELSE w

\* Weapon.level_up_weapon
level_up_weapon(w) == set_weapon_level(w, w.level + 1)

\* Thrown_Dagger.spawn_attack
spawn_attack(w, t) ==
    [w EXCEPT !.attacks =
        Append(@, Attack(w.speed, w.damage, w.duration, w.pierce, t))]

\* a cadence whose cursor goes back to 0 one step late
cadence_wraps_late(w, t) ==
    IF t - w.starting_time >= w.attack_interval[w.attack_interval_index + 1]
    THEN LET w1 == [w EXCEPT !.attack_interval_index = @ + 1,
                             !.starting_time = t]
         IN  IF w1.attack_interval_index <= Len(w1.attack_interval)
             THEN spawn_attack(w1, t)
             ELSE [w1 EXCEPT !.attack_interval_index = 0]
    ELSE w

\* Weapon.update, lines 180-188: the cadence cursor
cadence(w, t) ==
    IF t - w.starting_time >= w.attack_interval[w.attack_interval_index + 1]
    THEN LET w1 == [w EXCEPT !.attack_interval_index = @ + 1,
                             !.starting_time = t]
         IN  IF w1.attack_interval_index < Len(w1.attack_interval)
             THEN spawn_attack(w1, t)
             ELSE [w1 EXCEPT !.attack_interval_index = 0]
    ELSE w

\* Weapon.update, lines 190-193: the loop over self.attacks.  cur pairs each
\* attack with its place in the list when the loop began; i is the loop's
\* place in the list as it is now.
RECURSIVE sweep_attacks(_, _, _, _, _, _)
sweep_attacks(cur, i, mobs, hist, cols, t) ==
    IF i > Len(cur)
    THEN [attacks |-> [j \in 1..Len(cur) |-> cur[j].a],
          mobs |-> mobs, swept |-> hist]
    ELSE LET e == cur[i]
             gone == ~e.a.exists
             r == attack_update(e.a, mobs, cols[e.k], t)
             cur2 == IF gone
                     THEN RemoveAt(cur, i)
                     ELSE [cur EXCEPT ![i] = [a |-> r.a, k |-> e.k]]
             hist2 == [hist EXCEPT ![e.k].updates = @ + 1,
                                   ![e.k].removed = gone]
         IN  sweep_attacks(cur2, i + 1, r.mobs, hist2, cols, t)

\* Weapon.update
weapon_update(w, mobs, cols, t) ==
    LET w1 == cadence(w, t)
        n == Len(w1.attacks)
        r == sweep_attacks([k \in 1..n |-> [a |-> w1.attacks[k], k |-> k]], 1,
                           mobs,
                           [k \in 1..n |-> [existed |-> w1.attacks[k].exists,
                                            updates |-> 0, removed |-> FALSE]],
                           cols, t)
    IN  [w |-> [w1 EXCEPT !.attacks = r.attacks], mobs |-> r.mobs,
         swept |-> r.swept]

\* The answers collidelist may give to the attacks of one Weapon.update: for
\* each attack, one index into mob_list (0: no monster) per movement step.
Collisions(attacks, mobs) ==
    LET n == Len(attacks)
        steps == UNION {[1..attacks[k].speed -> 0..Len(mobs)] : k \in 1..n}
    IN  {c \in [1..n -> steps] :
            \A k \in 1..n : DOMAIN c[k] = 1..attacks[k].speed}

---------------------------------------------------------------------------
(* Collectables (collectables.py).  The field effects is history: the      *)
(* number of times active_effect has run on the item.                      *)

\* XP.__init__, lines 144-149: the sprite of a new XP item
xp_img(value) == IF value < 10 THEN 1 ELSE IF value < 50 THEN 2 ELSE 3

\* XP.condense, lines 191-197: the sprite after a merge
condense_img(value) == IF value < 5 THEN 1 ELSE IF value < 20 THEN 2 ELSE 3

\* XP.__init__ and Base_Collectable.__init__
XP(value, x, y) ==
    [kind |-> "XP", value |-> value, img |-> xp_img(value),
     x_pos |-> x, y_pos |-> y,
     visible |-> TRUE, exists |-> TRUE, active |-> FALSE, effects |-> 0]

\* Cake.__init__ and Base_Collectable.__init__
Cake(x, y) ==
    [kind |-> "Cake", value |-> 0, img |-> 0,
     x_pos |-> x, y_pos |-> y,
     visible |-> TRUE, exists |-> TRUE, active |-> FALSE, effects |-> 0]

\* hypot(a.x_pos - b.x_pos, a.y_pos - b.y_pos) <= d, on whole numbers
within(a, b, d) ==
    (a.x_pos - b.x_pos) * (a.x_pos - b.x_pos)
        + (a.y_pos - b.y_pos) * (a.y_pos - b.y_pos) <= d * d

\* the test of XP.condense without the comparison that spares the item itself
absorbs_any(pool, self, j, d) ==
    /\ pool[j].kind = "XP"
    /\ pool[j].exists
    /\ within(pool[j], pool[self], d)

\* XP.condense, lines 181-184: whether item j of the pool is merged into
\* item self
absorbs(pool, self, j, d) ==
    /\ pool[j].kind = "XP"
    /\ pool[j].exists
    /\ j # self
    /\ within(pool[j], pool[self], d)

\* XP.condense, lines 181-197: the body of the loop, for item j
condense_item(pool, self, j, d) ==
    IF absorbs(pool, self, j, d)
    THEN LET v == pool[self].value + pool[j].value
             p1 == [pool EXCEPT ![self].value = v]
             p2 == [p1 EXCEPT ![j].exists = FALSE]
             p3 == [p2 EXCEPT ![self].img = condense_img(v)]
         IN  p3
    ELSE pool

\* XP.condense: the loop over the pool, for the items lo..hi in the order
\* of the list: the first half of the range is gone through, and the list
\* it leaves, which is as long as the list it found, is the list the
\* second half begins with
RECURSIVE condense_from(_, _, _, _, _)
condense_from(pool, self, lo, hi, d) ==
    IF lo > hi
    THEN pool
    ELSE IF lo = hi
    THEN condense_item(pool, self, lo, d)
    ELSE LET mid == (lo + hi) \div 2
             first == condense_from(pool, self, lo, mid, d)
         IN  IF Len(first) = Len(pool)
             THEN condense_from(first, self, mid + 1, hi, d)
             ELSE first

\* XP.condense
condense(pool, self, d) == condense_from(pool, self, 1, Len(pool), d)

---------------------------------------------------------------------------
(* Actors (game_actors.py).  The player's and the monsters' positions are  *)
(* not computed: a monster keeps the coordinates of its construction, and  *)
(* whether it touches the player at a step of its move is an input.        *)

\* Player.__init__ and Base_Actor.__init__
Player(health) ==
    [health |-> health, max_health |-> health,
     alive |-> TRUE, damage_death |-> FALSE]

\* Monster.__init__ and Base_Actor.__init__, from a row of the spawn table.
\* The field contact_death is history: whether it was a contact with the
\* player that took alive from true to false.
Monster(row) ==
    [speed |-> row.speed, health |-> row.health, damage |-> row.damage,
     xp_value |-> row.xp_value, x_pos |-> 0, y_pos |-> 0,
     alive |-> TRUE, damage_death |-> FALSE, contact_death |-> FALSE]

\* Base_Actor.move with Monster.collision: touch[i] is colliderect's answer
\* at step i
RECURSIVE monster_move(_, _, _, _)
monster_move(m, player, touch, i) ==
    IF i > m.speed
    THEN [m |-> m, player |-> player]
    ELSE IF touch[i]
    THEN monster_move([m EXCEPT !.alive = FALSE,
                                !.contact_death = IF m.alive THEN TRUE ELSE @],
                      hurt(player, m.damage), touch, i + 1)
    ELSE monster_move(m, player, touch, i + 1)

\* Monster.update
monster_update(m, player, touch) == monster_move(m, player, touch, 1)

\* The answers colliderect may give to the monsters of one tick: for each
\* monster, one answer per step of its move.
MonsterTouches(monsters) ==
    LET n == Len(monsters)
        steps == UNION {[1..monsters[k].speed -> BOOLEAN] : k \in 1..n}
    IN  {c \in [1..n -> steps] :
            \A k \in 1..n : DOMAIN c[k] = 1..monsters[k].speed}

(* Positions and directions, where they are computed, are floats of the    *)
(* program kept as whole numbers of 1/Unit: 1.0 is Unit.                   *)

Unit == 100

\* the square root, rounded down: the largest r of lo..hi with r * r <= n
RECURSIVE isqrt_in(_, _, _)
isqrt_in(n, lo, hi) ==
    IF lo = hi THEN lo
    ELSE LET mid == (lo + hi + 1) \div 2
         IN  IF mid * mid <= n
             THEN isqrt_in(n, mid, hi)
             ELSE isqrt_in(n, lo, mid - 1)

isqrt(n) == isqrt_in(n, 0, Min(n, 46340))

\* numpy.hypot
hypot(dx, dy) == isqrt(dx * dx + dy * dy)

\* a / b for b > 0, rounded towards 0
fdiv(a, b) == IF a >= 0 THEN (a * Unit) \div b ELSE 0 - (((0 - a) * Unit) \div b)

\* a normalise that answers the vector (0, 0) with a direction of its own
normalise_default(dx, dy) ==
    LET hyp == hypot(dx, dy)
    IN  IF hyp # 0 THEN <<fdiv(dx, hyp), fdiv(dy, hyp)>> ELSE <<Unit, 0>>

\* normalise
normalise(dx, dy) ==
    LET hyp == hypot(dx, dy)
    IN  IF hyp # 0 THEN <<fdiv(dx, hyp), fdiv(dy, hyp)>> ELSE <<0, 0>>

\* Player.__init__ and Base_Actor.__init__, the position and speed included
Player_placed(x, y, speed, health) ==
    [x_pos |-> x, y_pos |-> y, dx |-> 0, dy |-> 0, speed |-> speed]
        @@ Player(health)

\* a Player.move that brings the player back into the level after its last
\* step only
RECURSIVE Player_move_late(_, _, _)
Player_move_late(p, i, steps) ==
    IF i > p.speed
    THEN [p |-> [p EXCEPT
                    !.x_pos = Max(PLAYER_W * Unit,
                                  Min(@, (LEVEL_W - PLAYER_W) * Unit)),
                    !.y_pos = Max(PLAYER_H * Unit,
                                  Min(@, (LEVEL_H - PLAYER_H) * Unit))],
          steps |-> steps]
    ELSE LET x == p.x_pos + p.dx
             y == p.y_pos + p.dy
         IN  Player_move_late([p EXCEPT !.x_pos = x, !.y_pos = y], i + 1,
                              Append(steps, <<x, y>>))

\* Player.move from its step i on; steps keeps the position after each step
RECURSIVE Player_move(_, _, _)
Player_move(p, i, steps) ==
    IF i > p.speed
    THEN [p |-> p, steps |-> steps]
    ELSE LET x == Max(PLAYER_W * Unit,
                      Min(p.x_pos + p.dx, (LEVEL_W - PLAYER_W) * Unit))
             y == Max(PLAYER_H * Unit,
                      Min(p.y_pos + p.dy, (LEVEL_H - PLAYER_H) * Unit))
         IN  Player_move([p EXCEPT !.x_pos = x, !.y_pos = y], i + 1,
                         Append(steps, <<x, y>>))

\* the vector Player.movement_direction builds from the keyboard
key_vector(keys) ==
    << (IF keys.right THEN Unit ELSE 0) - (IF keys.left THEN Unit ELSE 0),
       (IF keys.down THEN Unit ELSE 0) - (IF keys.up THEN Unit ELSE 0) >>

\* Player.movement_direction
movement_direction(p, keys) ==
    LET v == key_vector(keys)
        d == normalise(v[1], v[2])
    IN  [p EXCEPT !.dx = d[1], !.dy = d[2]]

\* Player.update
Player_update(p, keys) == Player_move(movement_direction(p, keys), 1, <<>>)

\* Monster.__init__ with the coordinates of its construction
Monster_placed(row, x, y) ==
    [dx |-> 0, dy |-> 0] @@ [Monster(row) EXCEPT !.x_pos = x, !.y_pos = y]

\* Monster.calculate_direction
calculate_direction(m, player) ==
    normalise(player.x_pos - m.x_pos, player.y_pos - m.y_pos)

\* Monster.update, the position included: every step of Base_Actor.move
\* adds (dx, dy) to it
Monster_update_placed(m, player, touch) ==
    LET d == calculate_direction(m, player)
        r == monster_update([m EXCEPT !.dx = d[1], !.dy = d[2]], player, touch)
    IN  [m |-> [r.m EXCEPT !.x_pos = @ + m.speed * d[1],
                           !.y_pos = @ + m.speed * d[2]],
         player |-> r.player]

\* Game.screen_coords for the player p: left, top, right, bottom, in whole
\* units of the level (int() of a float that is not negative)
screen_coords(p) ==
    LET half_w == (WIDTH * Unit) \div 2
        half_h == (HEIGHT * Unit) \div 2
    IN  << Max(0, Min((LEVEL_W - WIDTH) * Unit, p.x_pos - half_w)) \div Unit,
           Max(0, Min((LEVEL_H - HEIGHT) * Unit, p.y_pos - half_h)) \div Unit,
           Max(0, Min((LEVEL_W + WIDTH) * Unit, p.x_pos + half_w)) \div Unit,
           Max(0, Min((LEVEL_H + HEIGHT) * Unit, p.y_pos + half_h)) \div Unit >>

\* the draws of randint(a, b) that are explored: both ends and the middle
RandInts(a, b) == {a, (a + b) \div 2, b}

\* Monster.calculate_spawn_coords: the coordinates it may return, each with
\* the side drawn (0 LEFT, 1 TOP, 2 RIGHT, 3 BOTTOM)
calculate_spawn_coords(sc) ==
    LET LEFT == 1
        TOP == 2
        RIGHT == 3
        BOTTOM == 4
    IN  {[side |-> 0, pos |-> <<Max(sc[LEFT] - SPAWN_DISTANCE, 0), y>>]
            : y \in RandInts(sc[TOP], sc[BOTTOM])}
        \cup {[side |-> 1, pos |-> <<x, Max(sc[TOP] - SPAWN_DISTANCE, 0)>>]
            : x \in RandInts(sc[LEFT], sc[RIGHT])}
        \cup {[side |-> 2, pos |-> <<Min(sc[RIGHT] + SPAWN_DISTANCE, LEVEL_W), y>>]
            : y \in RandInts(sc[TOP], sc[BOTTOM])}
        \cup {[side |-> 3, pos |-> <<x, Min(sc[BOTTOM] + SPAWN_DISTANCE, LEVEL_H)>>]
            : x \in RandInts(sc[LEFT], sc[RIGHT])}

\* Charger.__init__: a Monster with the cooldown of its attack, built at
\* (x, y) with the direction towards the player of that moment (taken
\* from the distances in whole units of the level)
Charger(row, x, y, player) ==
    LET d == normalise((player.x_pos - x) \div Unit, (player.y_pos - y) \div Unit)
    IN  [speed |-> row.speed, health |-> row.health, damage |-> row.damage,
         cooldown_start |-> -1, alive |-> TRUE, damage_death |-> FALSE,
         x_pos |-> x, y_pos |-> y, dx |-> d[1], dy |-> d[2]]

\* a Charger.collision that has no cooldown
Charger_collision_eager(c, player, touch, t) ==
    IF touch
    THEN [c |-> [c EXCEPT !.cooldown_start = t],
          player |-> hurt(player, c.damage), hit |-> TRUE, answer |-> FALSE]
    ELSE [c |-> c, player |-> player, hit |-> FALSE, answer |-> FALSE]

\* Charger.collision at time t: touch is colliderect's answer; hit tells
\* whether the call hurt the player, answer is the value returned
Charger_collision(c, player, touch, t) ==
    IF touch /\ c.cooldown_start = -1
    THEN [c |-> [c EXCEPT !.cooldown_start = t],
          player |-> hurt(player, c.damage), hit |-> TRUE, answer |-> FALSE]
    ELSE IF t - c.cooldown_start >= HURT_COOLDOWN
    THEN [c |-> [c EXCEPT !.cooldown_start = -1],
          player |-> player, hit |-> FALSE, answer |-> FALSE]
    ELSE [c |-> c, player |-> player, hit |-> FALSE, answer |-> FALSE]

\* Base_Actor.move with Charger.collision; log keeps, for each step, whether
\* the player was hurt at it
RECURSIVE Charger_move(_, _, _, _, _, _)
Charger_move(c, player, touch, i, t, log) ==
    IF i > c.speed
    THEN [c |-> c, player |-> player, log |-> log]
    ELSE LET r == Charger_collision(c, player, touch[i], t)
             c2 == IF r.answer THEN [r.c EXCEPT !.alive = FALSE] ELSE r.c
             c3 == [c2 EXCEPT !.x_pos = @ + c2.dx, !.y_pos = @ + c2.dy]
         IN  Charger_move(c3, r.player, touch, i + 1, t, Append(log, r.hit))

\* the test of Charger.update: more than 100 beyond an edge of the level
beyond_level(c) ==
    \/ c.x_pos < (0 - 100) * Unit
    \/ c.x_pos > (LEVEL_W + 100) * Unit
    \/ c.y_pos < (0 - 100) * Unit
    \/ c.y_pos > (LEVEL_H + 100) * Unit

\* a Charger.update that turns the charger towards the player, as
\* Monster.update does
Charger_update_chasing(c, player, touch, t) ==
    LET d == normalise((player.x_pos - c.x_pos) \div Unit,
                       (player.y_pos - c.y_pos) \div Unit)
    IN  Charger_move([(IF beyond_level(c) THEN [c EXCEPT !.alive = FALSE] ELSE c)
                         EXCEPT !.dx = d[1], !.dy = d[2]],
                     player, touch, 1, t, <<>>)

\* Charger.update, which goes on with Base_Actor.update
Charger_update(c, player, touch, t) ==
    Charger_move(IF beyond_level(c) THEN [c EXCEPT !.alive = FALSE] ELSE c,
                 player, touch, 1, t, <<>>)

---------------------------------------------------------------------------
(* Collectables in the tick (collectables.py).                             *)

\* Base_Collectable.collide_player; touch is colliderect's answer
collide_player(c, touch) ==
    IF c.visible /\ touch
    THEN [c EXCEPT !.visible = FALSE, !.active = TRUE]
    ELSE c

\* an active_effect whose Cake adds its heal value and does not look at
\* max_health
active_effect_unclamped(c, xp, player) ==
    LET c1 == [c EXCEPT !.exists = FALSE, !.effects = @ + 1]
    IN  IF c.kind = "XP"
        THEN [c |-> c1, xp |-> xp + c.value, player |-> player]
        ELSE [c |-> c1, xp |-> xp,
              player |-> [player EXCEPT !.health = @ + HEAL_VALUE]]

\* XP.active_effect and Cake.active_effect, each ending in
\* Base_Collectable.active_effect
active_effect(c, xp, player) ==
    LET c1 == [c EXCEPT !.exists = FALSE, !.effects = @ + 1]
    IN  IF c.kind = "XP"
        THEN [c |-> c1, xp |-> xp + c.value, player |-> player]
        ELSE [c |-> c1, xp |-> xp,
              player |-> [player EXCEPT !.health =
                              Min(@ + HEAL_VALUE, player.max_health)]]

\* Base_Collectable.update
collectable_update(c, xp, player, touch) ==
    LET c1 == collide_player(c, touch)
    IN  IF c1.active
        THEN active_effect(c1, xp, player)
        ELSE [c |-> c1, xp |-> xp, player |-> player]

---------------------------------------------------------------------------
(* Game (game.py).  Two fields are history: swept tells, for every entry   *)
(* of monsters_alive and of collectables at the start of the tick's loop   *)
(* over it, what the loop did to the entry (for a monster: the monster as  *)
(* the loop found it and the collectables the loop emitted for it);        *)
(* credited is the xp the collectables added in the tick.  The field       *)
(* spawn_rate is the value Game.update compares its timer with, as a       *)
(* record [is_int, value]: constants.py holds a tuple of one number per    *)
(* minute of the game, and a Game is built either with one of the numbers  *)
(* (is_int) or with the tuple itself, as the module constant is written.   *)

\* Thrown_Dagger.__init__: the Weapon of the name "Thrown Dagger"
Thrown_Dagger(prog, starting_level, t) ==
    [name |-> "Thrown Dagger"] @@ Weapon(prog, starting_level, t)

\* Arrow.__init__: the Weapon of the name "Bow and Arrow"
Arrow(prog, starting_level, t) ==
    [name |-> "Bow and Arrow"] @@ Weapon(prog, starting_level, t)

\* Game.__init__; t is time() at the construction
Game(mobs, prog, starting_level, rate, t) ==
    [player |-> Player(PLAYER_HEALTH), mobs |-> mobs,
     monsters_alive |-> <<>>, collectables |-> <<>>,
     weapons |-> << Thrown_Dagger(prog, starting_level, t) >>,
     game_start_time |-> t, current_time |-> 0, current_minute |-> 0,
     timer |-> 0, xp |-> 0, xp_cap |-> LEVEL_CAP_BASE, level |-> 1,
     won |-> FALSE, spawn_rate |-> rate,
     swept |-> [monsters |-> <<>>, collectables |-> <<>>], credited |-> 0]

\* Game.update, lines 122-123; a minute is 600 tenths of a second
game_clock(g, t) ==
    [g EXCEPT !.current_time = t - g.game_start_time,
              !.current_minute = (t - g.game_start_time) \div 600]

\* the number constants.py gives the last minutes of the game, and the
\* tuple of all of them, which is what the name SPAWN_RATE is bound to
LastRate == [is_int |-> TRUE, value |-> SPAWN_RATE[Len(SPAWN_RATE)]]

RateTuple == [is_int |-> FALSE, value |-> SPAWN_RATE]

\* Game.update, line 128: Python's == between the timer, an int, and the
\* spawn rate: an int equals an int of its value and never equals a tuple
rate_reached(timer, rate) == rate.is_int /\ timer = rate.value

\* Game.update, lines 127-138: the spawn timer and the batch
spawn_batch(g) ==
    IF rate_reached(g.timer + 1, g.spawn_rate)
    THEN LET rows == SelectSeq(g.mobs,
                         LAMBDA row : g.current_minute \in row.spawn_time)
         IN  [g EXCEPT !.timer = 0,
                       !.monsters_alive =
                           @ \o [k \in 1..Len(rows) |-> Monster(rows[k])]]
    ELSE [g EXCEPT !.timer = @ + 1]

\* Game.update, lines 139-146: the loop over monsters_alive.  cur pairs each
\* monster with its place in the list when the loop began; i is the loop's
\* place in the list as it is now; cake[k] is whether randint's draw for
\* monster k is at most HEAL_SPAWN_CHANCE.
RECURSIVE sweep_monsters(_, _, _, _, _, _, _)
sweep_monsters(cur, i, player, pool, hist, touch, cake) ==
    IF i > Len(cur)
    THEN [monsters |-> [j \in 1..Len(cur) |-> cur[j].m], player |-> player,
          collectables |-> pool, swept |-> hist]
    ELSE LET e == cur[i]
             gone == ~e.m.alive
             drops == IF gone /\ e.m.damage_death
                      THEN <<XP(e.m.xp_value, e.m.x_pos, e.m.y_pos)>>
                           \o (IF cake[e.k]
                               THEN <<Cake(e.m.x_pos, e.m.y_pos)>>
                               ELSE <<>>)
                      ELSE <<>>
             r == monster_update(e.m, player, touch[e.k])
             cur2 == IF gone
                     THEN RemoveAt(cur, i)
                     ELSE [cur EXCEPT ![i] = [m |-> r.m, k |-> e.k]]
             hist2 == [hist EXCEPT ![e.k].updates = @ + 1,
                                   ![e.k].removed = gone,
                                   ![e.k].drops = drops,
                                   ![e.k].was = e.m]
         IN  sweep_monsters(cur2, i + 1, r.player, pool \o drops, hist2,
                            touch, cake)

\* Game.update, lines 139-146, for every answer of colliderect and randint
monsters_stage(g) ==
    LET n == Len(g.monsters_alive)
        cur == [k \in 1..n |-> [m |-> g.monsters_alive[k], k |-> k]]
        hist == [k \in 1..n |-> [existed |-> g.monsters_alive[k].alive,
                                 updates |-> 0, removed |-> FALSE,
                                 drops |-> <<>>,
                                 was |-> g.monsters_alive[k]]]
    IN  { LET r == sweep_monsters(cur, 1, g.player, g.collectables, hist,
                                  in[1], in[2])
          IN  [g EXCEPT !.monsters_alive = r.monsters, !.player = r.player,
                        !.collectables = r.collectables,
                        !.swept.monsters = r.swept]
          : in \in MonsterTouches(g.monsters_alive) \X [1..n -> BOOLEAN] }

\* random.sample(range(n), k): k different places of a list of n
Samples(n, k) ==
    {s \in [1..k -> 1..n] : \A a, b \in 1..k : a # b => s[a] # s[b]}

\* Game.update, lines 150-152: condense called on the sampled items
RECURSIVE condense_picked(_, _, _, _)
condense_picked(pool, picks, i, d) ==
    IF i > Len(picks)
    THEN pool
    ELSE condense_picked(IF pool[picks[i]].kind = "XP"
                         THEN condense(pool, picks[i], d)
                         ELSE pool,
                         picks, i + 1, d)

\* a condensation that searches one distance further than the pool's size
\* asks for
condense_sampled_wide(pool, picks) ==
    LET condense_pointer == Min(Len(pool) \div CONDENSE_THRESHOLD, 2)
    IN  condense_picked(pool, picks, 1, CONDENSE_DISTANCE[condense_pointer + 1])

\* Game.update, lines 149-152: the condensation, picks being the sample
condense_sampled(pool, picks) ==
    LET condense_pointer == Min(Len(pool) \div CONDENSE_THRESHOLD - 1, 2)
    IN  condense_picked(pool, picks, 1, CONDENSE_DISTANCE[condense_pointer + 1])

\* Game.update, lines 148-152: the pools the condensation may leave
condense_stage(pool) ==
    IF Len(pool) >= CONDENSE_THRESHOLD
    THEN {condense_sampled(pool, picks)
             : picks \in Samples(Len(pool), CONDENSE_AMOUNT)}
    ELSE {pool}

\* Game.update, lines 154-157: the loop over collectables, as sweep_monsters
RECURSIVE sweep_collectables(_, _, _, _, _, _)
sweep_collectables(cur, i, xp, player, hist, touch) ==
    IF i > Len(cur)
    THEN [collectables |-> [j \in 1..Len(cur) |-> cur[j].c], xp |-> xp,
          player |-> player, swept |-> hist]
    ELSE LET e == cur[i]
             gone == ~e.c.exists
             r == collectable_update(e.c, xp, player, touch[e.k])
             cur2 == IF gone
                     THEN RemoveAt(cur, i)
                     ELSE [cur EXCEPT ![i] = [c |-> r.c, k |-> e.k]]
             hist2 == [hist EXCEPT ![e.k].updates = @ + 1,
                                   ![e.k].removed = gone,
                                   ![e.k].effects = r.c.effects]
         IN  sweep_collectables(cur2, i + 1, r.xp, r.player, hist2, touch)

\* Game.update, lines 148-157, for every sample and every answer of
\* colliderect
collectables_stage(g) ==
    { LET pool == in[1]
          n == Len(pool)
          cur == [k \in 1..n |-> [c |-> pool[k], k |-> k]]
          hist == [k \in 1..n |-> [existed |-> pool[k].exists, updates |-> 0,
                                   removed |-> FALSE,
                                   effects |-> pool[k].effects]]
          r == sweep_collectables(cur, 1, g.xp, g.player, hist, in[2])
      IN  [g EXCEPT !.collectables = r.collectables, !.xp = r.xp,
                    !.player = r.player, !.swept.collectables = r.swept,
                    !.credited = r.xp - g.xp]
      : in \in UNION { {pool} \X [1..Len(pool) -> BOOLEAN]
                          : pool \in condense_stage(g.collectables) } }

\* Game.update, lines 159-160: the loop over weapons, from weapon i on, for
\* every answer of collidelist
RECURSIVE update_weapons(_, _, _, _)
update_weapons(ws, i, mobs, t) ==
    IF i > Len(ws)
    THEN {[weapons |-> ws, mobs |-> mobs]}
    ELSE UNION { update_weapons([ws EXCEPT ![i] = r.w], i + 1, r.mobs, t)
                    : r \in {weapon_update(ws[i], mobs, cols, t)
                                : cols \in Collisions(cadence(ws[i], t).attacks,
                                                      mobs)} }

weapons_stage(g, t) ==
    {[g EXCEPT !.weapons = r.weapons, !.monsters_alive = r.mobs]
        : r \in update_weapons(g.weapons, 1, g.monsters_alive, t)}

\* the win condition: the code that sets Game.won is not part of the
\* sources, so whether a tick sets it is an input
win_stage(g) == {g, [g EXCEPT !.won = TRUE]}

\* Game.update: the Game objects one call at time t may leave.  Player.update
\* moves the player and changes nothing the model keeps.
Game_update(g, t) ==
    UNION { UNION { UNION { win_stage(g3) : g3 \in weapons_stage(g2, t) }
                      : g2 \in collectables_stage(g1) }
              : g1 \in monsters_stage(spawn_batch(game_clock(g, t))) }

---------------------------------------------------------------------------
(* The level-up menu (level_up.py).  choices is the game's weapons list;   *)
(* option_chosen is the place of the chosen weapon in it, 0 for None.      *)

\* Level_Up.__init__
Level_Up(current_weapons) ==
    [all_max_level |->
         \A k \in 1..Len(current_weapons) : current_weapons[k].max_level,
     current_selection |-> 0, chosen |-> FALSE, option_chosen |-> 0,
     down_pressed |-> FALSE, up_pressed |-> FALSE]

\* a menu whose cursor stops at the first and at the last choice
Level_Up_update_stops(lu, choices, keys) ==
    IF ~lu.chosen /\ ~lu.all_max_level
    THEN LET n == Len(choices)
             a == IF keys.up /\ ~lu.up_pressed
                  THEN [lu EXCEPT !.up_pressed = TRUE,
                                  !.current_selection =
                                      IF @ = 0 THEN 0 ELSE @ - 1]
                  ELSE IF ~keys.up
                  THEN [lu EXCEPT !.up_pressed = FALSE]
                  ELSE lu
             b == IF keys.down /\ ~a.down_pressed
                  THEN [a EXCEPT !.down_pressed = TRUE,
                                 !.current_selection =
                                     IF @ = n - 1 THEN n - 1 ELSE @ + 1]
                  ELSE IF ~keys.down
                  THEN [a EXCEPT !.down_pressed = FALSE]
                  ELSE a
         IN  IF keys.space /\ ~choices[b.current_selection + 1].max_level
             THEN [b EXCEPT !.chosen = TRUE,
                            !.option_chosen = b.current_selection + 1]
             ELSE b
    ELSE IF ~lu.chosen /\ lu.all_max_level
    THEN [lu EXCEPT !.chosen = TRUE]
    ELSE lu

\* Level_Up.update
Level_Up_update(lu, choices, keys) ==
    IF ~lu.chosen /\ ~lu.all_max_level
    THEN LET n == Len(choices)
             a == IF keys.up /\ ~lu.up_pressed
                  THEN [lu EXCEPT !.up_pressed = TRUE,
                                  !.current_selection =
                                      IF @ = 0 THEN n - 1 ELSE @ - 1]
                  ELSE IF ~keys.up
                  THEN [lu EXCEPT !.up_pressed = FALSE]
                  ELSE lu
             b == IF keys.down /\ ~a.down_pressed
                  THEN [a EXCEPT !.down_pressed = TRUE,
                                 !.current_selection =
                                     IF @ = n - 1 THEN 0 ELSE @ + 1]
                  ELSE IF ~keys.down
                  THEN [a EXCEPT !.down_pressed = FALSE]
                  ELSE a
         IN  IF keys.space /\ ~choices[b.current_selection + 1].max_level
             THEN [b EXCEPT !.chosen = TRUE,
                            !.option_chosen = b.current_selection + 1]
             ELSE b
    ELSE IF ~lu.chosen /\ lu.all_max_level
    THEN [lu EXCEPT !.chosen = TRUE]
    ELSE lu

---------------------------------------------------------------------------
(* The top level (survivors.py).  s is the record of the globals state,    *)
(* game, time_paused and level_up; keys is the keyboard; t is time() in    *)
(* the call.  Each operator gives the set of records the call may leave.   *)

\* round(xp_cap * LEVEL_CAP_MULTIPLIER), the multiplier being 1.1: the whole
\* number nearest to 11 * cap / 10, the even one of two equally near, which
\* is what round gives on every cap that grows out of LEVEL_CAP_BASE
next_cap(cap) ==
    LET q == (cap * 11) \div 10
        r == (cap * 11) % 10
    IN  IF r < 5 THEN q
        ELSE IF r > 5 THEN q + 1
        ELSE IF q % 2 = 0 THEN q ELSE q + 1

\* a level-up that throws the overflow away
level_up_player_reset(g) ==
    [g EXCEPT !.xp = 0, !.xp_cap = next_cap(g.xp_cap), !.level = @ + 1]

\* update, lines 92-94
level_up_player(g) ==
    [g EXCEPT !.xp = @ - g.xp_cap, !.xp_cap = next_cap(g.xp_cap),
              !.level = @ + 1]

\* a PLAY branch that looks at the xp before it looks at the player's health
update_PLAY_levels_first(s, keys, t) ==
    IF s.game.xp >= s.game.xp_cap
    THEN LET g1 == level_up_player(s.game)
         IN  {[s EXCEPT !.game = g2, !.time_paused = t,
                        !.level_up = Level_Up(g1.weapons),
                        !.state = "LEVEL_UP"] : g2 \in Game_update(g1, t)}
    ELSE IF s.game.player.health <= 0 \/ s.game.won
    THEN {[s EXCEPT !.state = "GAME_OVER"]}
    ELSE IF keys.escape
    THEN {[s EXCEPT !.game = g2, !.time_paused = t, !.state = "PAUSE"]
             : g2 \in Game_update(s.game, t)}
    ELSE {[s EXCEPT !.game = g2] : g2 \in Game_update(s.game, t)}

\* update, lines 87-106: the PLAY branch
update_PLAY(s, keys, t) ==
    IF s.game.player.health <= 0 \/ s.game.won
    THEN {[s EXCEPT !.state = "GAME_OVER"]}
    ELSE IF s.game.xp >= s.game.xp_cap
    THEN LET g1 == level_up_player(s.game)
         IN  {[s EXCEPT !.game = g2, !.time_paused = t,
                        !.level_up = Level_Up(g1.weapons),
                        !.state = "LEVEL_UP"] : g2 \in Game_update(g1, t)}
    ELSE IF keys.escape
    THEN {[s EXCEPT !.game = g2, !.time_paused = t, !.state = "PAUSE"]
             : g2 \in Game_update(s.game, t)}
    ELSE {[s EXCEPT !.game = g2] : g2 \in Game_update(s.game, t)}

\* a restart that leaves every weapon at level 0
restart_levels_none(g) ==
    [g EXCEPT !.weapons =
        [k \in 1..Len(g.weapons) |-> set_weapon_level(g.weapons[k], 0)]]

\* update, lines 111-113: the weapon levels of a new game
restart_levels(g) ==
    LET ws == [k \in 1..Len(g.weapons) |-> set_weapon_level(g.weapons[k], 0)]
    IN  [g EXCEPT !.weapons = [ws EXCEPT ![1] = set_weapon_level(@, 1)]]

\* update, lines 108-113: the GAME_OVER branch.  The new Game is built from
\* the same tables as the one it replaces.
update_GAME_OVER(s, keys, t) ==
    IF keys.space
    THEN {[s EXCEPT !.state = "PLAY",
                    !.game = restart_levels(
                        Game(s.game.mobs, s.game.weapons[1].progression,
                             lvl, s.game.spawn_rate, t))]
             : lvl \in StartingLevels}
    ELSE {s}

\* a resume that leaves the origin of the game clock where it was
update_PAUSE_unshifted(s, keys, t) ==
    IF keys.space THEN {[s EXCEPT !.state = "PLAY"]} ELSE {s}

\* a resume that opens the menu
update_PAUSE_to_menu(s, keys, t) ==
    IF keys.space
    THEN {[s EXCEPT !.game.game_start_time = @ + (t - s.time_paused),
                    !.state = "MENU"]}
    ELSE {s}

\* a PAUSE branch that keeps the game running until space is held
update_PAUSE_running(s, keys, t) ==
    IF keys.space
    THEN {[s EXCEPT !.game.game_start_time = @ + (t - s.time_paused),
                    !.state = "PLAY"]}
    ELSE {[s EXCEPT !.game = g2] : g2 \in Game_update(s.game, t)}

\* update, lines 115-119: the PAUSE branch
update_PAUSE(s, keys, t) ==
    IF keys.space
    THEN {[s EXCEPT !.game.game_start_time = @ + (t - s.time_paused),
                    !.state = "PLAY"]}
    ELSE {s}

\* a LEVEL_UP branch that equips one more weapon of the chosen one's class
update_LEVEL_UP_adds(s, keys, t) ==
    IF s.level_up.chosen
    THEN LET choice == s.level_up.option_chosen
             ws == s.game.weapons
             g1 == IF choice # 0
                   THEN [s.game EXCEPT !.weapons =
                            Append(ws, level_up_weapon(ws[choice]))]
                   ELSE [s.game EXCEPT !.player.health =
                            Min(@ + HEAL_VALUE \div 2, s.game.player.max_health)]
         IN  {[s EXCEPT !.game = [g1 EXCEPT !.game_start_time =
                                               @ + (t - s.time_paused)],
                        !.state = "PLAY"]}
    ELSE {[s EXCEPT !.level_up = Level_Up_update(@, s.game.weapons, keys)]}

\* a LEVEL_UP branch whose heal is not held at max_health
update_LEVEL_UP_unclamped(s, keys, t) ==
    IF s.level_up.chosen
    THEN LET choice == s.level_up.option_chosen
             ws == s.game.weapons
             g1 == IF choice # 0
                   THEN [s.game EXCEPT !.weapons =
                            [k \in 1..Len(ws) |->
                                IF ws[k].name = ws[choice].name
                                THEN level_up_weapon(ws[k])
                                ELSE ws[k]]]
                   ELSE [s.game EXCEPT !.player.health = @ + HEAL_VALUE \div 2]
         IN  {[s EXCEPT !.game = [g1 EXCEPT !.game_start_time =
                                               @ + (t - s.time_paused)],
                        !.state = "PLAY"]}
    ELSE {[s EXCEPT !.level_up = Level_Up_update(@, s.game.weapons, keys)]}

\* a LEVEL_UP branch that levels every weapon up, whatever the choice
update_LEVEL_UP_every(s, keys, t) ==
    IF s.level_up.chosen
    THEN LET choice == s.level_up.option_chosen
             ws == s.game.weapons
             g1 == IF choice # 0
                   THEN [s.game EXCEPT !.weapons =
                            [k \in 1..Len(ws) |-> level_up_weapon(ws[k])]]
                   ELSE [s.game EXCEPT !.player.health =
                            Min(@ + HEAL_VALUE \div 2, s.game.player.max_health)]
         IN  {[s EXCEPT !.game = [g1 EXCEPT !.game_start_time =
                                               @ + (t - s.time_paused)],
                        !.state = "PLAY"]}
    ELSE {[s EXCEPT !.level_up = Level_Up_update(@, s.game.weapons, keys)]}

\* update, lines 121-140: the LEVEL_UP branch.  The class of a weapon is
\* told by its name.
update_LEVEL_UP(s, keys, t) ==
    IF s.level_up.chosen
    THEN LET choice == s.level_up.option_chosen
             ws == s.game.weapons
             g1 == IF choice # 0
                   THEN [s.game EXCEPT !.weapons =
                            [k \in 1..Len(ws) |->
                                IF ws[k].name = ws[choice].name
                                THEN level_up_weapon(ws[k])
                                ELSE ws[k]]]
                   ELSE [s.game EXCEPT !.player.health =
                            Min(@ + HEAL_VALUE \div 2, s.game.player.max_health)]
         IN  {[s EXCEPT !.game = [g1 EXCEPT !.game_start_time =
                                               @ + (t - s.time_paused)],
                        !.state = "PLAY"]}
    ELSE {[s EXCEPT !.level_up = Level_Up_update(@, s.game.weapons, keys)]}

\* update
update(s, keys, t) ==
    IF s.state = "MENU" /\ keys.space
    THEN {[s EXCEPT !.state = "PLAY", !.game.game_start_time = t]}
    ELSE IF s.state = "PLAY" THEN update_PLAY(s, keys, t)
    ELSE IF s.state = "GAME_OVER" THEN update_GAME_OVER(s, keys, t)
    ELSE IF s.state = "PAUSE" THEN update_PAUSE(s, keys, t)
    ELSE IF s.state = "LEVEL_UP" THEN update_LEVEL_UP(s, keys, t)
    ELSE {s}

---------------------------------------------------------------------------
(* SpecWeapon: one Weapon, constructed at any level of its table, then     *)
(* driven by update, set_weapon_level and level_up_weapon in any order.    *)

MobLists == { <<Mob(2)>>, <<Mob(3)>> }

\* the variables of the weapon in a specification that has no weapon
NoWeapon ==
    /\ now = 0
    /\ weapon = <<>>
    /\ mob_list = <<>>
    /\ cycle = <<>>
    /\ swept = <<>>
    /\ call = <<>>

NotCondensed == [called |-> FALSE, pool |-> <<>>, self |-> 0, d |-> 0]

\* the variables of the pool in a specification that has no collectables
NoPool ==
    /\ collectables = <<>>
    /\ condensed = NotCondensed

\* the variables of the game in a specification that has no game
NoGame ==
    /\ state = ""
    /\ game = <<>>
    /\ time_paused = 0
    /\ level_up = <<>>
    /\ trail = <<>>

\* the variables of the actor in a specification that has no lone actor
NoActor ==
    /\ actor = <<>>
    /\ target = <<>>
    /\ acted = <<>>

\* history of the level calls: op is the method called, arg the level it
\* asked for, before and after the weapon as the call found and left it.
NoCall == [op |-> "", arg |-> 0, before |-> <<>>, after |-> <<>>]

\* history of the cadence: n counts the attacks spawned since the cursor
\* last stood at 0; clean says that no level change has happened since the
\* cursor left 0; the last_ fields keep both, and the quantity, of the
\* last cycle that ran to its end.
CycleStart ==
    [n |-> 0, clean |-> TRUE, done |-> FALSE, changes |-> 0,
     last_n |-> 0, last_q |-> 0, last_clean |-> FALSE]

CycleAfterUpdate(c, w, t) ==
    LET w1 == cadence(w, t)
    IN  IF w1.starting_time = w.starting_time /\ w1.attack_interval_index = w.attack_interval_index
           /\ Len(w1.attacks) = Len(w.attacks)
        THEN c
        ELSE IF Len(w1.attacks) > Len(w.attacks)
        THEN [c EXCEPT !.n = @ + 1]
        ELSE [c EXCEPT !.n = 0, !.clean = TRUE, !.done = TRUE,
                       !.last_n = c.n, !.last_q = w.quantity,
                       !.last_clean = c.clean]

CycleAfterLevel(c, w, w2) ==
    IF w2 = w THEN c
    ELSE [c EXCEPT !.clean = (w.attack_interval_index = 0),
                   !.changes = @ + 1]

InitWeapon ==
    /\ now = 0
    /\ \E prog \in Progressions : \E lvl \in 0..(Len(prog) - 1) :
           weapon = Weapon(prog, lvl, 0)
    /\ mob_list = <<>>
    /\ cycle = CycleStart
    /\ swept = <<>>
    /\ call = NoCall
    /\ NoPool
    /\ NoGame
    /\ NoActor

WeaponUpdate ==
    \E dt \in 1..MaxDt :
        LET t == now + dt
            w1 == cadence(weapon, t)
        IN  /\ t <= MaxTime
            /\ Len(w1.attacks) <= MaxAttacks
            /\ \E cols \in Collisions(w1.attacks, mob_list) :
                   LET r == weapon_update(weapon, mob_list, cols, t)
                   IN  /\ \A k \in 1..Len(r.mobs) : r.mobs[k].health >= -MaxOverkill
                       /\ now' = t
                       /\ weapon' = r.w
                       /\ mob_list' = r.mobs
                       /\ swept' = r.swept
                       /\ cycle' = CycleAfterUpdate(cycle, weapon, t)
                       /\ UNCHANGED <<call, poolVars, gameVars, actorVars>>

SetWeaponLevel ==
    \E n \in -1..(weapon.level_cap + 1) :
        /\ weapon' = set_weapon_level(weapon, n)
        /\ cycle' = CycleAfterLevel(cycle, weapon, weapon')
        /\ cycle'.changes <= MaxLevelChanges
        /\ call' = [op |-> "set_weapon_level", arg |-> n,
                    before |-> weapon, after |-> weapon']
        /\ UNCHANGED <<now, mob_list, swept, poolVars, gameVars, actorVars>>

LevelUpWeapon ==
    /\ weapon' = level_up_weapon(weapon)
    /\ cycle' = CycleAfterLevel(cycle, weapon, weapon')
    /\ cycle'.changes <= MaxLevelChanges
    /\ call' = [op |-> "level_up_weapon", arg |-> weapon.level + 1,
                before |-> weapon, after |-> weapon']
    /\ UNCHANGED <<now, mob_list, swept, poolVars, gameVars, actorVars>>

NextWeapon == WeaponUpdate \/ SetWeaponLevel \/ LevelUpWeapon

SpecWeapon == InitWeapon /\ [][NextWeapon]_vars

(* SpecAttack: a Weapon at any level of its table, updated tick after tick *)
(* with monsters in reach of its attacks.                                  *)

InitAttack ==
    /\ now = 0
    /\ \E prog \in Progressions : \E lvl \in 0..(Len(prog) - 1) :
           weapon = Weapon(prog, lvl, 0)
    /\ mob_list \in MobLists
    /\ cycle = CycleStart
    /\ swept = <<>>
    /\ call = NoCall
    /\ NoPool
    /\ NoGame
    /\ NoActor

NextAttack == WeaponUpdate

SpecAttack == InitAttack /\ [][NextAttack]_vars

---------------------------------------------------------------------------
(* C1: in a cycle of the cadence that starts with the cursor at 0 and sees *)
(* no change of level on its way, a weapon whose row has quantity q spawns *)
(* exactly q attacks before the cursor is back at 0.                       *)
C1_CycleSpawnsQuantity ==
    (cycle.done /\ cycle.last_clean) => cycle.last_n = cycle.last_q

(* C2: attack_interval always has quantity + 1 entries.                    *)
C2_IntervalLength ==
    Len(weapon.attack_interval) = weapon.quantity + 1

(* C3: an attack created with pierce N > 0 is ended by collision at its    *)
(* N-th damaging hit and at no other hit, in the tick of that hit; an      *)
(* attack created with pierce -1 is never ended by a hit and keeps its     *)
(* pierce.                                                                 *)
C3_PierceEndsAtNthHit ==
    \A k \in 1..Len(weapon.attacks) :
        LET a == weapon.attacks[k]
        IN  /\ a.pierce0 > 0 =>
                /\ a.ended_at \in {0, a.pierce0}
                /\ a.hits >= a.pierce0 => (a.ended_at = a.pierce0 /\ ~a.exists)
                /\ a.hits < a.pierce0 => (a.ended_at = 0 /\ (a.exists \/ a.expired))
            /\ a.pierce0 = -1 =>
                /\ a.pierce = -1
                /\ a.ended_at = 0
                /\ (a.exists \/ a.expired)

C3_Witness ==
    \E k \in 1..Len(weapon.attacks) :
        LET a == weapon.attacks[k]
        IN  a.pierce0 = 2 /\ a.hits = 2 /\ ~a.exists /\ ~a.expired

(* C40: after every Weapon.update, set_weapon_level and level_up_weapon,   *)
(* in any order, the cursor attack_interval_index is at least 0 and below  *)
(* the length of attack_interval, so the lookup at the start of update is  *)
(* in range.                                                               *)
C40_CursorInRange ==
    /\ weapon.attack_interval_index >= 0
    /\ weapon.attack_interval_index < Len(weapon.attack_interval)

C40_Witness ==
    /\ cycle.changes > 0
    /\ Len(weapon.attack_interval) > weapon.quantity + 1
    /\ weapon.attack_interval_index = Len(weapon.attack_interval) - 1
    /\ weapon.attack_interval_index > weapon.quantity
    /\ weapon.attacks # <<>>

(* C11: max_level is true exactly when level is level_cap.                 *)
C11_MaxLevelIffCap ==
    weapon.max_level <=> (weapon.level = weapon.level_cap)

(* C12: a set_weapon_level with a level below 0 or above level_cap, and a   *)
(* level_up_weapon on a weapon at level_cap, leaves the weapon as it was:  *)
(* level, max_level, the six stat fields and attack_interval.              *)
C12_RejectedLevelIsNoOp ==
    (call.op # "" /\ (call.arg < 0 \/ call.arg > call.before.level_cap)) =>
        /\ call.after.level = call.before.level
        /\ call.after.max_level = call.before.max_level
        /\ \A f \in {"quantity", "frequency", "duration", "pierce", "speed", "damage"} :
               call.after[f] = call.before[f]
        /\ call.after.attack_interval = call.before.attack_interval
        /\ call.after = call.before

C12_Witness ==
    /\ call.op = "level_up_weapon"
    /\ call.before.level = call.before.level_cap
    /\ call.before.max_level
    /\ weapon = call.before

(* C5: in the sweep of a tick, every entry that exists when the sweep      *)
(* begins has its update run exactly once.                                 *)
C5_SweepUpdatesEachOnce ==
    \A k \in 1..Len(swept) : swept[k].existed => swept[k].updates = 1

(* C27: an attack whose exists flag is false when the sweep of             *)
(* Weapon.update comes to it is removed from attacks and is not updated:   *)
(* it does not move and runs no collision.                                 *)
C27_EndedAttackNotUpdated ==
    \A k \in 1..Len(swept) :
        (~swept[k].existed /\ swept[k].removed) => swept[k].updates = 0

(* C28: an entry whose removal flag is set before a sweep begins is        *)
(* removed by that sweep: no attack that did not exist when the sweep of   *)
(* Weapon.update began is in attacks after it.                             *)
C28_FlaggedRemovedByNextSweep ==
    \A k \in 1..Len(swept) : ~swept[k].existed => swept[k].removed

(* C22: an attack damages the same monster at most once per immunity       *)
(* window, whatever its speed: one update of an attack, which is one tick, *)
(* lowers the health of no monster by more than one hit's damage.          *)
C22_OneHitPerWindow ==
    \A k \in 1..Len(weapon.attacks) :
        LET a == weapon.attacks[k]
        IN  a.exists =>
                \A col \in [1..a.speed -> 0..Len(mob_list)] :
                    LET r == attack_update(a, mob_list, col, now + 1)
                    IN  \A m \in 1..Len(mob_list) :
                            r.mobs[m].health >= mob_list[m].health - a.damage

(* C39: an attack created with a pierce N > 0 has damaged monsters at most  *)
(* N times and its pierce is not below 0, now and after the update that    *)
(* the next Weapon.update gives it.                                        *)
C39_PierceBoundsHits ==
    \A k \in 1..Len(weapon.attacks) :
        LET a == weapon.attacks[k]
        IN  a.pierce0 > 0 =>
                /\ a.hits <= a.pierce0
                /\ a.pierce >= 0
                /\ \A col \in [1..a.speed -> 0..Len(mob_list)] :
                       LET a2 == attack_update(a, mob_list, col, now + 1).a
                       IN  a2.hits <= a.pierce0 /\ a2.pierce >= 0

(* C33: check_duration has ended an attack exactly when an update of the   *)
(* attack came at or after spawn_time + duration: an update before that    *)
(* moment leaves the attack as far as check_duration goes, the first       *)
(* update at or after it takes exists, and no update gives an attack its   *)
(* exists flag back.                                                       *)
C33_ExpiresAtDuration ==
    \A k \in 1..Len(weapon.attacks) :
        LET a == weapon.attacks[k]
        IN  /\ a.expired => (~a.exists /\ now - a.spawn_time >= a.duration)
            /\ \A dt \in 1..MaxDt : \A col \in [1..a.speed -> 0..Len(mob_list)] :
                    LET a2 == attack_update(a, mob_list, col, now + dt).a
                        due == now + dt - a.spawn_time >= a.duration
                    IN  /\ a2.expired = (a.expired \/ due)
                        /\ due => ~a2.exists
                        /\ ~a.exists => ~a2.exists
                        /\ (a.exists /\ ~a2.exists) =>
                               (due \/ a2.ended_at # 0)

C33_Witness ==
    \E k \in 1..Len(weapon.attacks) :
        LET a == weapon.attacks[k]
        IN  /\ a.expired
            /\ a.ended_at = 0
            /\ a.hits > 0
            /\ now - a.spawn_time = a.duration

---------------------------------------------------------------------------
(* SpecCondense: XP.condense called, any number of times, on the XP items  *)
(* of a pool of collectables lying at a few places of the level.           *)

Places == { <<0, 0>>, <<12, 16>>, <<0, 21>> }

PoolValues == <<5, 3, 2, 7>>

PoolItems(i) ==
    { [c EXCEPT !.exists = e] :
        c \in {XP(PoolValues[i], pl[1], pl[2]) : pl \in Places}
              \cup {Cake(0, 0)},
        e \in BOOLEAN }

Pools ==
    {pool \in [1..PoolSize -> UNION {PoolItems(i) : i \in 1..PoolSize}] :
        \A i \in 1..PoolSize : pool[i] \in PoolItems(i)}

InitCondense ==
    /\ collectables \in Pools
    /\ condensed = NotCondensed
    /\ NoWeapon
    /\ NoActor
    /\ NoGame

Condense ==
    \E self \in 1..Len(collectables) : \E n \in 1..Len(CONDENSE_DISTANCE) :
        /\ collectables[self].kind = "XP"
        /\ collectables' = condense(collectables, self, CONDENSE_DISTANCE[n])
        /\ condensed' = [called |-> TRUE, pool |-> collectables, self |-> self,
                         d |-> CONDENSE_DISTANCE[n]]
        /\ UNCHANGED <<weaponVars, gameVars, actorVars>>

NextCondense == Condense

SpecCondense == InitCondense /\ [][NextCondense]_vars

RECURSIVE SumValues(_, _)
SumValues(pool, S) ==
    IF S = {} THEN 0
    ELSE LET j == CHOOSE x \in S : TRUE
         IN  pool[j].value + SumValues(pool, S \ {j})

\* the items of the pool another item's condense call is to merge: the
\* other XP items that exist and lie within the search distance
InReach(pool, self, d) ==
    {j \in 1..Len(pool) :
        /\ j # self
        /\ pool[j].kind = "XP"
        /\ pool[j].exists
        /\ within(pool[j], pool[self], d)}

(* C10: condense on item A adds to A.value the value of every other XP     *)
(* item that exists and lies within the distance, marks each of them       *)
(* non-existent, and leaves every other item as it was: A itself, the      *)
(* items already non-existent and the items that are not XP are not        *)
(* absorbed.                                                               *)
C10_CondenseAbsorbs ==
    condensed.called =>
        LET pre == condensed.pool
            A == condensed.self
            R == InReach(pre, A, condensed.d)
        IN  /\ collectables[A].value = pre[A].value + SumValues(pre, R)
            /\ collectables[A].exists = pre[A].exists
            /\ \A j \in R : ~collectables[j].exists
            /\ \A j \in (1..Len(pre)) \ (R \cup {A}) : collectables[j] = pre[j]

C10_Witness ==
    /\ condensed.called
    /\ condensed.pool[condensed.self].exists
    /\ InReach(condensed.pool, condensed.self, condensed.d) # {}
    /\ \E j \in 1..Len(condensed.pool) :
           /\ j # condensed.self
           /\ condensed.pool[j].kind = "XP"
           /\ ~condensed.pool[j].exists
           /\ within(condensed.pool[j], condensed.pool[condensed.self], condensed.d)

---------------------------------------------------------------------------
(* SpecGame: the program from its start, update() called frame after       *)
(* frame with any keys held, any time between two frames and any answer    *)
(* of the collision tests and of the random draws.                         *)

\* the spawn table (values/mobs.csv): one row per kind of monster
GameMobs ==
    << [speed |-> 1, health |-> 1, damage |-> 100, xp_value |-> 12,
        spawn_time |-> {0}],
       [speed |-> 2, health |-> 2, damage |-> 50, xp_value |-> 25,
        spawn_time |-> {1, 2}] >>

\* the keyboard: no key held, or one of the keys update() and
\* Level_Up.update read
NoKey == [space |-> FALSE, escape |-> FALSE, up |-> FALSE, down |-> FALSE]

Keys ==
    { NoKey, [NoKey EXCEPT !.space = TRUE], [NoKey EXCEPT !.escape = TRUE],
      [NoKey EXCEPT !.up = TRUE], [NoKey EXCEPT !.down = TRUE] }

\* the time between two calls of update(), in tenths of a second
FrameTimes == {1}

NoLevelUp == Level_Up(<<>>)

\* history of the run: earned is the xp the collectables have added to
\* game.xp and killed the sum of xp_value over the monsters that have
\* dropped an XP item since the game began; frames counts the calls of
\* update; clock is the time
\* that was not spent in PAUSE or LEVEL_UP; played is the time spent in PLAY
\* and paused the time spent in PAUSE or LEVEL_UP since the game began;
\* updated says that the last call ran Game.update; cadence says whether
\* that Game.update moved the first weapon's cursor, which interval the
\* cursor was waiting for (needed) and how much of clock had gone by since
\* the cursor moved last (waited); moved_at is clock at that last move.
TrailStart ==
    [frames |-> 0, clock |-> 0, played |-> 0, paused |-> 0,
     updated |-> FALSE, moved_at |-> 0,
     cadence |-> [moved |-> FALSE, needed |-> 0, waited |-> 0],
     earned |-> 0, killed |-> 0]

\* the sum of xp_value over the monsters of which the loop of Game.update
\* over monsters_alive dropped an XP item, from entry k of its record on
RECURSIVE KilledValue(_, _)
KilledValue(hist, k) ==
    IF k > Len(hist) THEN 0
    ELSE (IF hist[k].drops # <<>> THEN hist[k].was.xp_value ELSE 0)
             + KilledValue(hist, k + 1)

TrailAfter(tr, s, s2, dt) ==
    LET began == s2.state = "PLAY" /\ s.state \in {"MENU", "GAME_OVER"}
        frozen == s.state \in {"PAUSE", "LEVEL_UP"}
        clock2 == IF frozen THEN tr.clock ELSE tr.clock + dt
        ran == s.state = "PLAY" /\ s2.state # "GAME_OVER"
        w == s.game.weapons[1]
        w2 == s2.game.weapons[1]
        moved == ran /\ w2.starting_time # w.starting_time
    IN  [frames |-> tr.frames + 1,
         clock |-> clock2,
         played |-> IF began THEN 0
                    ELSE IF s.state = "PLAY" THEN tr.played + dt
                    ELSE tr.played,
         paused |-> IF began THEN 0
                    ELSE IF frozen THEN tr.paused + dt
                    ELSE tr.paused,
         updated |-> ran,
         moved_at |-> IF moved \/ (s.state = "GAME_OVER" /\ began)
                      THEN clock2 ELSE tr.moved_at,
         cadence |-> IF moved
                     THEN [moved |-> TRUE,
                           needed |-> w.attack_interval[w.attack_interval_index + 1],
                           waited |-> clock2 - tr.moved_at]
                     ELSE [moved |-> FALSE, needed |-> 0, waited |-> 0],
         earned |-> IF began THEN 0
                    ELSE IF ran THEN tr.earned + s2.game.credited
                    ELSE tr.earned,
         killed |-> IF began THEN 0
                    ELSE IF ran
                    THEN tr.killed + KilledValue(s2.game.swept.monsters, 1)
                    ELSE tr.killed]

InitGame ==
    /\ now = 0
    /\ weapon = <<>>
    /\ mob_list = <<>>
    /\ cycle = <<>>
    /\ swept = <<>>
    /\ call = <<>>
    /\ NoPool
    /\ NoActor
    /\ state = "MENU"
    /\ \E prog \in Progressions : \E lvl \in StartingLevels :
           game = Game(GameMobs, prog, lvl, LastRate, 0)
    /\ time_paused = 0
    /\ level_up = NoLevelUp
    /\ trail = TrailStart

\* one call of update(), of a run of at most frames calls, with the
\* keyboard in one of the states of held
FrameWithin(frames, held) ==
    \E dt \in FrameTimes : \E keys \in held :
        LET t == now + dt
            s == [state |-> state, game |-> game,
                  time_paused |-> time_paused, level_up |-> level_up]
        IN  /\ trail.frames < frames
            /\ \E s2 \in update(s, keys, t) :
                   /\ now' = t
                   /\ state' = s2.state
                   /\ game' = s2.game
                   /\ time_paused' = s2.time_paused
                   /\ level_up' = s2.level_up
                   /\ trail' = TrailAfter(trail, s, s2, dt)
                   /\ UNCHANGED <<weapon, mob_list, cycle, swept, call,
                                  poolVars, actorVars>>

Frame == FrameWithin(MaxFrames, Keys)

UpdateInMenu == state = "MENU" /\ Frame

UpdateInPlay == state = "PLAY" /\ Frame

UpdateInGameOver == state = "GAME_OVER" /\ Frame

UpdateInPause == state = "PAUSE" /\ Frame

UpdateInLevelUp == state = "LEVEL_UP" /\ Frame

NextGame ==
    \/ UpdateInMenu
    \/ UpdateInPlay
    \/ UpdateInGameOver
    \/ UpdateInPause
    \/ UpdateInLevelUp

SpecGame == InitGame /\ [][NextGame]_vars

(* C4: no collectable has its effect applied more than once: after the     *)
(* loop of a tick over the collectables, active_effect has run at most     *)
(* once on every entry the loop went over, and on every collectable still  *)
(* in the list.                                                            *)
C4_EffectAppliedOnce ==
    /\ \A k \in 1..Len(game.swept.collectables) :
           game.swept.collectables[k].effects <= 1
    /\ \A k \in 1..Len(game.collectables) : game.collectables[k].effects <= 1

(* C35: XP is never counted twice: the xp the collectables have added to    *)
(* game.xp since the game began is at most the sum of xp_value over the    *)
(* monsters that were killed by damage.                                    *)
C35_XpCountedOnce == trail.earned <= trail.killed

(* C37: the player is alive exactly when its health is above 0: no Cake    *)
(* and no heal of the level-up menu lifts the health of a player that has  *)
(* died, so that the PLAY branch of update ends the game of a dead player. *)
C37_AliveIffHealth ==
    game.player.alive <=> game.player.health > 0

(* C38: the player's health is never above max_health, in the game and in  *)
(* the level-up menu.                                                      *)
C38_HealthAtMostMax ==
    game.player.health <= game.player.max_health

C38_Witness ==
    /\ state = "PLAY"
    /\ game.player.health = game.player.max_health
    /\ \E k \in 1..Len(game.collectables) :
           /\ game.collectables[k].kind = "Cake"
           /\ game.collectables[k].effects > 0

(* C6: the first weapon's cursor never moves before the interval it waits  *)
(* for has gone by on the clock that stands still in PAUSE and LEVEL_UP.   *)
C6_PauseFreezesCadence ==
    trail.cadence.moved => trail.cadence.waited >= trail.cadence.needed

(* C7: a frame that takes the state from PAUSE or LEVEL_UP to PLAY adds to *)
(* game_start_time the time gone by since time_paused was set, a frame     *)
(* that takes it from MENU to PLAY sets game_start_time to the time of the *)
(* frame, and the current_time every Game.update computes is the time the  *)
(* game has spent in PLAY, the time spent in PAUSE and LEVEL_UP left out.  *)
C7_ResumeShiftsOrigin ==
    /\ [][ /\ (state \in {"PAUSE", "LEVEL_UP"} /\ state' = "PLAY") =>
                game'.game_start_time
                    = game.game_start_time + (now' - time_paused)
           /\ (state = "MENU" /\ state' = "PLAY") =>
                game'.game_start_time = now' ]_vars
    /\ [](trail.updated => game.current_time = trail.played)

C7_Witness ==
    /\ state = "PLAY"
    /\ trail.updated
    /\ trail.paused > 0
    /\ game.current_time = trail.played
    /\ game.current_time > 0

Edges ==
    { <<"MENU", "PLAY">>, <<"PLAY", "GAME_OVER">>, <<"PLAY", "PAUSE">>,
      <<"PLAY", "LEVEL_UP">>, <<"PAUSE", "PLAY">>, <<"LEVEL_UP", "PLAY">>,
      <<"GAME_OVER", "PLAY">> }

(* C8: the state changes along the seven edges only.                       *)
C8_StateEdges ==
    [][state' # state => <<state, state'>> \in Edges]_vars

C8_Witness ==
    /\ state = "PLAY"
    /\ game.level > 1
    /\ trail.updated

(* C9: xp_cap starts at LEVEL_CAP_BASE, in the first game and in every     *)
(* game a restart builds, and a frame that takes the state from PLAY to    *)
(* LEVEL_UP, taken with xp >= xp_cap, leaves the cap at round(1.1 * cap),  *)
(* the level one higher and the xp at xp - cap plus what the collectables  *)
(* credited in the Game.update of that frame.                              *)
C9_LevelUpCarriesOverflow ==
    /\ game.xp_cap = LEVEL_CAP_BASE
    /\ [][ /\ (state = "GAME_OVER" /\ state' = "PLAY") =>
                game'.xp_cap = LEVEL_CAP_BASE
           /\ (state = "PLAY" /\ state' = "LEVEL_UP") =>
                /\ game.xp >= game.xp_cap
                /\ game'.xp_cap = next_cap(game.xp_cap)
                /\ game'.level = game.level + 1
                /\ game'.xp = game.xp - game.xp_cap + game'.credited ]_vars

C9_Witness ==
    /\ state = "LEVEL_UP"
    /\ game.level = 2
    /\ game.xp_cap = 22
    /\ game.xp - game.credited > 0

(* C16: a frame that finds the state PLAY and the player's health at 0 or  *)
(* less, or the game won, leaves the state GAME_OVER whatever the xp and   *)
(* the keys are, and does not run Game.update: the game, time_paused and   *)
(* level_up are as the frame found them.                                   *)
C16_GameOverFirst ==
    [][(state = "PLAY" /\ (game.player.health <= 0 \/ game.won)) =>
           /\ state' = "GAME_OVER"
           /\ game' = game
           /\ time_paused' = time_paused
           /\ level_up' = level_up
           /\ ~trail'.updated]_vars

C16_Witness ==
    /\ state = "GAME_OVER"
    /\ game.player.health <= 0
    /\ game.xp >= game.xp_cap

C18_OneWeaponPerClass ==
    \A i, j \in 1..Len(game.weapons) :
        i # j => game.weapons[i].name # game.weapons[j].name

C18_Witness ==
    /\ state = "PLAY"
    /\ game.level = 2
    /\ Len(game.weapons) = 1
    /\ game.weapons[1].name = "Thrown Dagger"
    /\ game.weapons[1].level = 2

(* C26: a call of update() in the state MENU, PAUSE, LEVEL_UP or           *)
(* GAME_OVER runs no Game.update: but for the restart, which replaces the  *)
(* game, it leaves the monsters, the collectables, the attacks of every    *)
(* weapon, xp and the spawn timer as they are, no sweep runs, the player   *)
(* changes only by the heal and the weapons only by the level-up of a      *)
(* resolved LEVEL_UP.                                                      *)
C26_FrozenOutsidePlay ==
    state \in {"MENU", "PAUSE", "LEVEL_UP", "GAME_OVER"} =>
        \A keys \in Keys : \A dt \in FrameTimes :
            LET s == [state |-> state, game |-> game,
                      time_paused |-> time_paused, level_up |-> level_up]
                resolved == state = "LEVEL_UP" /\ level_up.chosen
            IN  \A s2 \in update(s, keys, now + dt) :
                    (state = "GAME_OVER" /\ s2.state = "PLAY") \/
                    /\ s2.game.monsters_alive = game.monsters_alive
                    /\ s2.game.collectables = game.collectables
                    /\ s2.game.xp = game.xp
                    /\ s2.game.timer = game.timer
                    /\ s2.game.swept = game.swept
                    /\ Len(s2.game.weapons) = Len(game.weapons)
                    /\ \A k \in 1..Len(game.weapons) :
                           s2.game.weapons[k].attacks = game.weapons[k].attacks
                    /\ \/ s2.game.weapons = game.weapons
                       \/ resolved /\ level_up.option_chosen # 0
                    /\ \/ s2.game.player = game.player
                       \/ /\ resolved /\ level_up.option_chosen = 0
                          /\ s2.game.player =
                                 [game.player EXCEPT !.health =
                                     Min(@ + HEAL_VALUE \div 2,
                                         game.player.max_health)]

C26_Witness ==
    /\ state = "PAUSE"
    /\ now - time_paused >= 2
    /\ Len(game.monsters_alive) > 0
    /\ Len(game.weapons[1].attacks) > 0
    /\ game.timer > 0

(* C14: the loop that removes a monster emits one XP item, of the          *)
(* monster's xp_value, for a monster killed by damage, and no collectable  *)
(* for a monster that a contact with the player marked dead.               *)
C14_DropOnlyForDamageKill ==
    \A k \in 1..Len(game.swept.monsters) :
        LET h == game.swept.monsters[k]
            xps == SelectSeq(h.drops, LAMBDA c : c.kind = "XP")
        IN  h.removed =>
                IF h.was.contact_death
                THEN h.drops = <<>>
                ELSE /\ Len(xps) = 1
                     /\ xps[1].value = h.was.xp_value

---------------------------------------------------------------------------
(* SpecCharger: one Charger in the list of monsters, updated tick after    *)
(* tick against a player it may overlap at any step, until it is removed   *)
(* from the list or the player is dead.  The charger was built at a place  *)
(* calculate_spawn_coords gives it left of the screen of a player at the   *)
(* right edge of the level, towards that player, and has since flown a     *)
(* number of ticks without meeting the player.                             *)

MaxChargerTime == 130

ChargerRows == { [speed |-> 2, health |-> 3, damage |-> 50] }

\* the time between two updates of the charger, in tenths of a second
ChargerFrameTimes == {1, 49, 50}

\* where the player stands when the charger is built
ChargerAim == [x_pos |-> (LEVEL_W - PLAYER_W) * Unit, y_pos |-> HALF_LEVEL_H * Unit]

\* where the player may stand at an update of the charger
ChargerSpots ==
    { ChargerAim, [x_pos |-> PLAYER_W * Unit, y_pos |-> PLAYER_H * Unit] }

\* where the charger is built: SPAWN_DISTANCE left of the screen, level
\* with the top of the screen
ChargerSpawns ==
    LET sc == screen_coords(ChargerAim)
    IN  { <<(sc[1] - SPAWN_DISTANCE) * Unit, sc[2] * Unit>> }

\* the ticks the charger has flown
ChargerFlights == {590}

\* the charger after n calls of Charger.update that met no player
flown(c, n) ==
    [c EXCEPT !.x_pos = @ + n * c.speed * c.dx,
              !.y_pos = @ + n * c.speed * c.dy]

\* history of the charger's hits: last_hit and prev_hit are the times of
\* the last two calls of collision that hurt the player (-1 for none),
\* stalled tells whether a call after the last hit saw the rectangles
\* overlap and did not hurt, blocked tells the same of the calls between
\* the last two hits; listed tells whether the charger is in the list.
ChargerStart ==
    [listed |-> TRUE, last_hit |-> -1, prev_hit |-> -1,
     stalled |-> FALSE, blocked |-> FALSE]

RECURSIVE ChargerAfter(_, _, _, _, _)
ChargerAfter(h, touch, log, i, t) ==
    IF i > Len(log) THEN h
    ELSE IF log[i]
    THEN ChargerAfter([h EXCEPT !.prev_hit = h.last_hit, !.last_hit = t,
                                !.blocked = h.stalled, !.stalled = FALSE],
                      touch, log, i + 1, t)
    ELSE IF touch[i]
    THEN ChargerAfter([h EXCEPT !.stalled = TRUE], touch, log, i + 1, t)
    ELSE ChargerAfter(h, touch, log, i + 1, t)

InitCharger ==
    /\ now = 0
    /\ weapon = <<>>
    /\ mob_list = <<>>
    /\ cycle = <<>>
    /\ swept = <<>>
    /\ call = <<>>
    /\ NoPool
    /\ NoGame
    /\ \E row \in ChargerRows : \E at \in ChargerSpawns :
       \E n \in ChargerFlights :
           /\ ~beyond_level(flown(Charger(row, at[1], at[2], ChargerAim), n - 1))
           /\ actor = flown(Charger(row, at[1], at[2], ChargerAim), n)
    /\ target = Player(PLAYER_HEALTH)
    /\ acted = ChargerStart

\* the charger's turn in the loop of Game.update over monsters_alive: a
\* charger that is not alive is taken off the list, and updated all the same
ChargerUpdate ==
    \E dt \in ChargerFrameTimes : \E spot \in ChargerSpots :
    \E touch \in [1..actor.speed -> BOOLEAN] :
        LET t == now + dt
            r == Charger_update(actor, spot @@ target, touch, t)
            h == ChargerAfter(acted, touch, r.log, 1, t)
        IN  /\ t <= MaxChargerTime
            /\ acted.listed
            /\ target.health > 0
            /\ now' = t
            /\ actor' = r.c
            /\ target' = [f \in DOMAIN target |-> r.player[f]]
            /\ acted' = [h EXCEPT !.listed = actor.alive]
            /\ UNCHANGED <<weapon, mob_list, cycle, swept, call,
                           poolVars, gameVars>>

NextCharger == ChargerUpdate

SpecCharger == InitCharger /\ [][NextCharger]_vars

(* C13: after a Charger has hurt the player at a time t it does not hurt   *)
(* the player again before t + HURT_COOLDOWN, however many of its          *)
(* collision checks see the rectangles overlap in between.                 *)
C13_ChargerCooldown ==
    acted.prev_hit # -1 => acted.last_hit - acted.prev_hit >= HURT_COOLDOWN

C13_Witness ==
    /\ acted.prev_hit # -1
    /\ acted.blocked
    /\ acted.last_hit - acted.prev_hit = HURT_COOLDOWN

---------------------------------------------------------------------------
(* SpecMonster: one Monster in the list of monsters, updated tick after    *)
(* tick against a player it may overlap at any step of its move, and hurt  *)
(* by the attacks between two updates, until it is removed from the list   *)
(* or the player is dead.                                                  *)

MaxMonsterUpdates == 4

MonsterRows ==
    { [speed |-> 1, health |-> 1, damage |-> 20, xp_value |-> 1],
      [speed |-> 2, health |-> 2, damage |-> 30, xp_value |-> 1],
      [speed |-> 3, health |-> 2, damage |-> 50, xp_value |-> 1] }

\* history of the monster's updates: updates counts them, hurts is the
\* number of times the last update hurt the player, first the step of
\* that update at which collision first returned True (0 for none);
\* listed tells whether the monster is in the list.
MonsterStart == [listed |-> TRUE, updates |-> 0, hurts |-> 0, first |-> 0]

FirstTouch(touch) ==
    IF \E i \in DOMAIN touch : touch[i]
    THEN CHOOSE i \in DOMAIN touch :
             touch[i] /\ \A j \in DOMAIN touch : touch[j] => i <= j
    ELSE 0

InitMonster ==
    /\ now = 0
    /\ weapon = <<>>
    /\ mob_list = <<>>
    /\ cycle = <<>>
    /\ swept = <<>>
    /\ call = <<>>
    /\ NoPool
    /\ NoGame
    /\ actor \in {Monster(row) : row \in MonsterRows}
    /\ target = Player(PLAYER_HEALTH)
    /\ acted = MonsterStart

\* the monster's turn in the loop of Game.update over monsters_alive: a
\* monster that is not alive is taken off the list, and updated all the same
MonsterUpdate ==
    \E touch \in [1..actor.speed -> BOOLEAN] :
        LET r == monster_update(actor, target, touch)
        IN  /\ acted.listed
            /\ acted.updates < MaxMonsterUpdates
            /\ target.health > 0
            /\ actor' = r.m
            /\ target' = r.player
            /\ acted' = [listed |-> actor.alive,
                         updates |-> acted.updates + 1,
                         hurts |-> (target.health - r.player.health)
                                       \div actor.damage,
                         first |-> FirstTouch(touch)]
            /\ UNCHANGED <<weaponVars, poolVars, gameVars>>

\* an attack of damage 1 hits the monster in the weapons' stage of a tick
MonsterHurt ==
    /\ acted.listed
    /\ acted.updates > 0
    /\ actor.health > 0
    /\ actor' = hurt(actor, 1)
    /\ UNCHANGED <<target, acted, weaponVars, poolVars, gameVars>>

NextMonster == MonsterUpdate \/ MonsterHurt

SpecMonster == InitMonster /\ [][NextMonster]_vars

(* C15: once the collision hook of a monster has reported true at a step   *)
(* of its move, no later step of that move runs the hook again, so that    *)
(* one update of a monster hurts the player at most once.                  *)
C15_MoveStopsAtCollision ==
    acted.hurts <= 1

(* C36: a monster that is no longer alive does not hurt the player again:  *)
(* whatever the rectangles do, the update the loop of Game.update gives a  *)
(* listed monster whose alive flag is false leaves the player as it was.   *)
C36_DeadMonsterHurtsNoMore ==
    (acted.listed /\ ~actor.alive) =>
        \A touch \in [1..actor.speed -> BOOLEAN] :
            monster_update(actor, target, touch).player = target

---------------------------------------------------------------------------
(* SpecPlayer: a Player at a place of the level, updated with any keys     *)
(* held, and a Monster near it or on it, updated against it.               *)

MaxPlayerUpdates == 2

PlayerSpeeds == {1, PLAYER_SPEED}

PlayerXs ==
    {PLAYER_W * Unit, (PLAYER_W + 2) * Unit, HALF_LEVEL_W * Unit,
     (LEVEL_W - PLAYER_W - 2) * Unit}

PlayerYs ==
    {PLAYER_H * Unit, HALF_LEVEL_H * Unit, (LEVEL_H - PLAYER_H - 2) * Unit}

PlayerKeys == [{"right", "left", "up", "down"} -> BOOLEAN]

\* where the monster stands, seen from the player
ChaserOffsets == { <<0, 0>>, <<3 * Unit, 4 * Unit>>, <<0 - 5 * Unit, 0>> }

ChaserRows == { [speed |-> 2, health |-> 2, damage |-> 30, xp_value |-> 1] }

\* history of an actor's last update: intent is the vector handed to
\* normalise, before the position the update found, steps the position
\* after each step of the move.
NoMove == [made |-> FALSE, intent |-> <<0, 0>>, before |-> <<0, 0>>,
           steps |-> <<>>]

InitPlayer ==
    /\ now = 0
    /\ weapon = <<>>
    /\ mob_list = <<>>
    /\ cycle = <<>>
    /\ swept = <<>>
    /\ call = <<>>
    /\ NoPool
    /\ NoGame
    /\ \E x \in PlayerXs : \E y \in PlayerYs : \E speed \in PlayerSpeeds :
       \E o \in ChaserOffsets : \E row \in ChaserRows :
           /\ actor = Player_placed(x, y, speed, PLAYER_HEALTH)
           /\ target = Monster_placed(row, x + o[1], y + o[2])
    /\ acted = [updates |-> 0, listed |-> TRUE,
                player |-> NoMove, monster |-> NoMove]

\* Player.update, as Game.update calls it
PlayerUpdate ==
    \E keys \in PlayerKeys :
        LET r == Player_update(actor, keys)
        IN  /\ acted.updates < MaxPlayerUpdates
            /\ actor.health > 0
            /\ actor' = r.p
            /\ acted' = [acted EXCEPT
                             !.updates = @ + 1,
                             !.player = [made |-> TRUE,
                                         intent |-> key_vector(keys),
                                         before |-> <<actor.x_pos, actor.y_pos>>,
                                         steps |-> r.steps]]
            /\ UNCHANGED <<target, weaponVars, poolVars, gameVars>>

\* the monster's turn in the loop of Game.update over monsters_alive; a
\* monster that stands on the player overlaps it
ChaserUpdate ==
    \E touch \in [1..target.speed -> BOOLEAN] :
        LET r == Monster_update_placed(target, actor, touch)
            on == target.x_pos = actor.x_pos /\ target.y_pos = actor.y_pos
        IN  /\ acted.updates < MaxPlayerUpdates
            /\ acted.listed
            /\ actor.health > 0
            /\ on => \A i \in 1..target.speed : touch[i]
            /\ target' = r.m
            /\ actor' = r.player
            /\ acted' = [acted EXCEPT
                             !.updates = @ + 1,
                             !.listed = target.alive,
                             !.monster =
                                 [made |-> TRUE,
                                  intent |-> <<actor.x_pos - target.x_pos,
                                               actor.y_pos - target.y_pos>>,
                                  before |-> <<target.x_pos, target.y_pos>>,
                                  steps |-> <<>>]]
            /\ UNCHANGED <<weaponVars, poolVars, gameVars>>

NextPlayer == PlayerUpdate \/ ChaserUpdate

SpecPlayer == InitPlayer /\ [][NextPlayer]_vars

InLevel(pos) ==
    /\ PLAYER_W * Unit <= pos[1] /\ pos[1] <= (LEVEL_W - PLAYER_W) * Unit
    /\ PLAYER_H * Unit <= pos[2] /\ pos[2] <= (LEVEL_H - PLAYER_H) * Unit

(* C19: after every step of Player.move, whatever the direction and the    *)
(* speed, PLAYER_W <= x_pos <= LEVEL_W - PLAYER_W and                      *)
(* PLAYER_H <= y_pos <= LEVEL_H - PLAYER_H.                                *)
C19_PlayerStaysInLevel ==
    /\ InLevel(<<actor.x_pos, actor.y_pos>>)
    /\ \A i \in 1..Len(acted.player.steps) : InLevel(acted.player.steps[i])

C19_Witness ==
    /\ acted.player.made
    /\ Len(acted.player.steps) = PLAYER_SPEED
    /\ actor.x_pos = (LEVEL_W - PLAYER_W) * Unit
    /\ acted.player.before[1] + actor.speed * actor.dx
           > (LEVEL_W - PLAYER_W) * Unit

(* C20: normalise(0, 0) is (0, 0): a player updated with no direction held *)
(* and a monster updated while it stands on the player get the direction   *)
(* (0, 0), and the update leaves their position where it was.              *)
C20_ZeroVectorStays ==
    /\ normalise(0, 0) = <<0, 0>>
    /\ (acted.player.made /\ acted.player.intent = <<0, 0>>) =>
           /\ actor.dx = 0 /\ actor.dy = 0
           /\ <<actor.x_pos, actor.y_pos>> = acted.player.before
           /\ \A i \in 1..Len(acted.player.steps) :
                  acted.player.steps[i] = acted.player.before
    /\ (acted.monster.made /\ acted.monster.intent = <<0, 0>>) =>
           /\ target.dx = 0 /\ target.dy = 0
           /\ <<target.x_pos, target.y_pos>> = acted.monster.before

C20_Witness ==
    /\ acted.player.made /\ acted.player.intent = <<0, 0>>
    /\ acted.monster.made /\ acted.monster.intent = <<0, 0>>
    /\ <<target.x_pos, target.y_pos>> = <<actor.x_pos, actor.y_pos>>

---------------------------------------------------------------------------
(* SpecSpawn: a Player at a place of the level and the monsters that       *)
(* Game.update builds around its screen.                                   *)

SpawnXs ==
    {PLAYER_W * Unit, HALF_LEVEL_W * Unit - 70, HALF_LEVEL_W * Unit,
     (LEVEL_W - WIDTH) * Unit, (LEVEL_W - PLAYER_W) * Unit}

SpawnYs ==
    {PLAYER_H * Unit, HALF_LEVEL_H * Unit - 70, HALF_LEVEL_H * Unit,
     (LEVEL_H - HEIGHT) * Unit, (LEVEL_H - PLAYER_H) * Unit}

\* history of the last spawn: the side drawn and the screen it was given
NoSpawn == [made |-> FALSE, side |-> 0, screen |-> <<0, 0, 0, 0>>]

InitSpawn ==
    /\ now = 0
    /\ weapon = <<>>
    /\ mob_list = <<>>
    /\ cycle = <<>>
    /\ swept = <<>>
    /\ call = <<>>
    /\ NoPool
    /\ NoGame
    /\ \E x \in SpawnXs : \E y \in SpawnYs :
           actor = Player_placed(x, y, PLAYER_SPEED, PLAYER_HEALTH)
    /\ target = <<>>
    /\ acted = NoSpawn

\* Game.update, lines 132-138: a Monster is built around the screen
SpawnMonster ==
    \E row \in ChaserRows :
        LET sc == screen_coords(actor)
        IN  \E c \in calculate_spawn_coords(sc) :
                /\ target' = Monster_placed(row, c.pos[1] * Unit, c.pos[2] * Unit)
                /\ acted' = [made |-> TRUE, side |-> c.side, screen |-> sc]
                /\ UNCHANGED <<actor, weaponVars, poolVars, gameVars>>

NextSpawn == SpawnMonster

SpecSpawn == InitSpawn /\ [][NextSpawn]_vars

(* C21: the coordinates a monster is spawned at lie in the level:          *)
(* 0 <= x <= LEVEL_W and 0 <= y <= LEVEL_H.                                *)
C21_SpawnInLevel ==
    acted.made =>
        /\ 0 <= target.x_pos /\ target.x_pos <= LEVEL_W * Unit
        /\ 0 <= target.y_pos /\ target.y_pos <= LEVEL_H * Unit

---------------------------------------------------------------------------
(* SpecMenu: the LEVEL_UP state.  update() has just built the menu from    *)
(* game.weapons, which the menu keeps as its choices; the weapons stand at *)
(* the levels that level-ups have brought them to, and the player has lost *)
(* some health.  Game.__init__ equips the Thrown_Dagger; the lists with a  *)
(* second weapon hold an Arrow, the other class of weapons.py whose        *)
(* progression has the columns modelled here.                              *)

MenuHealths == {PLAYER_HEALTH - 5, PLAYER_HEALTH - 50}

\* n calls of level_up_weapon
RECURSIVE levelled(_, _)
levelled(w, n) == IF n = 0 THEN w ELSE levelled(level_up_weapon(w), n - 1)

MenuWeaponLists ==
    LET daggers == {levelled(Thrown_Dagger(prog, lvl, 0), n) :
                       prog \in Progressions, lvl \in StartingLevels, n \in 0..2}
        arrows == {levelled(Arrow(prog, lvl, 0), n) :
                      prog \in Progressions, lvl \in StartingLevels, n \in 0..2}
    IN  {<<d>> : d \in daggers} \cup {<<d, a>> : d \in daggers, a \in arrows}

\* the keys Level_Up.update reads, in every combination
MenuKeys ==
    {[NoKey EXCEPT !.space = sp, !.up = u, !.down = d] :
        sp \in BOOLEAN, u \in BOOLEAN, d \in BOOLEAN}

InitMenu ==
    /\ NoWeapon
    /\ NoPool
    /\ NoActor
    /\ state = "LEVEL_UP"
    /\ \E ws \in MenuWeaponLists : \E h \in MenuHealths :
           game = [level_up_player(
                       [Game(GameMobs, ws[1].progression, 0,
                             LastRate, 0)
                           EXCEPT !.xp = LEVEL_CAP_BASE])
                     EXCEPT !.weapons = ws, !.player.health = h]
    /\ time_paused = 0
    /\ level_up = Level_Up(game.weapons)
    /\ trail = TrailStart

\* one call of update() in the LEVEL_UP state
MenuUpdate ==
    \E keys \in MenuKeys :
        LET t == now + 1
            s == [state |-> state, game |-> game,
                  time_paused |-> time_paused, level_up |-> level_up]
        IN  /\ state = "LEVEL_UP"
            /\ t <= MaxMenuFrames
            /\ \E s2 \in update(s, keys, t) :
                   /\ now' = t
                   /\ state' = s2.state
                   /\ game' = s2.game
                   /\ time_paused' = s2.time_paused
                   /\ level_up' = s2.level_up
                   /\ trail' = TrailAfter(trail, s, s2, 1)
                   /\ UNCHANGED <<weapon, mob_list, cycle, swept, call,
                                  poolVars, actorVars>>

NextMenu == MenuUpdate

SpecMenu == InitMenu /\ [][NextMenu]_vars

(* C23: in a menu with at least one choice the cursor stays within         *)
(* 0..len(choices)-1 whatever keys are held, up from 0 goes to the last    *)
(* choice and down from the last choice goes to 0, one place at a time     *)
(* otherwise; once chosen is true an update changes neither chosen,        *)
(* option_chosen nor the cursor.                                           *)
C23_CursorWrapsMenuTerminal ==
    LET n == Len(game.weapons)
        cur == level_up.current_selection
        open == ~level_up.chosen /\ ~level_up.all_max_level
    IN  n >= 1 =>
            /\ cur \in 0..(n - 1)
            /\ \A keys \in MenuKeys :
                   LET lu2 == Level_Up_update(level_up, game.weapons, keys)
                   IN  /\ lu2.current_selection \in 0..(n - 1)
                       /\ (open /\ keys.up /\ ~keys.down /\ ~level_up.up_pressed) =>
                              lu2.current_selection = (cur + n - 1) % n
                       /\ (open /\ keys.down /\ ~keys.up /\ ~level_up.down_pressed) =>
                              lu2.current_selection = (cur + 1) % n
                       /\ level_up.chosen =>
                              /\ lu2.chosen
                              /\ lu2.option_chosen = level_up.option_chosen
                              /\ lu2.current_selection = cur

C23_Witness ==
    /\ Len(game.weapons) = 2
    /\ now = 1
    /\ level_up.up_pressed /\ ~level_up.down_pressed
    /\ level_up.current_selection = 1
    /\ level_up.chosen /\ level_up.option_chosen = 2

C25_ChoicesNotMaxedAtMostThree ==
    state = "LEVEL_UP" =>
        /\ Len(game.weapons) <= LEVEL_UP_CHOICES_COUNT
        /\ \A k \in 1..Len(game.weapons) : ~game.weapons[k].max_level

---------------------------------------------------------------------------
(* SpecStage: the condensation of Game.update, lines 148-152, on pools     *)
(* around the sizes at which it starts and at which it widens its search.  *)
(* The items lie in rows of five, 15 apart in a row and the rows 100       *)
(* apart, every eighth item a Cake, and some XP items are already          *)
(* absorbed.  The sample is one of a few of the sequences that             *)
(* random.sample may return.                                               *)

StageSizes ==
    {CONDENSE_THRESHOLD - 1, CONDENSE_THRESHOLD, 2 * CONDENSE_THRESHOLD,
     3 * CONDENSE_THRESHOLD, 4 * CONDENSE_THRESHOLD}

\* a pool of n items; every item whose place is a multiple of gone is an
\* item that an earlier condensation absorbed
StagePool(n, gone) ==
    [k \in 1..n |->
        LET x == ((k - 1) % 5) * 15
            y == ((k - 1) \div 5) * 100
            c == IF k % 8 = 0 THEN Cake(x, y) ELSE XP(1 + (k % 3), x, y)
        IN  [c EXCEPT !.exists = (k % gone # 0)]]

\* CONDENSE_AMOUNT different places of a pool of n items, a fixed stride
\* apart
StagePicks(n) ==
    {picks \in {[i \in 1..CONDENSE_AMOUNT |->
                    ((start + (i - 1) * stride - 1) % n) + 1]
                   : start \in {1, 4, 23, 36, 41}, stride \in {1, 7}} :
        \A a, b \in 1..CONDENSE_AMOUNT : a # b => picks[a] # picks[b]}

\* history of the condensation: the pool it found and the sample it drew
NoStage == [ticks |-> 0, pool |-> <<>>, picks |-> <<>>, after |-> <<>>]

InitStage ==
    /\ NoWeapon
    /\ NoGame
    /\ NoActor
    /\ \E n \in StageSizes : \E gone \in {3, 7, 4 * CONDENSE_THRESHOLD + 1} :
           collectables = StagePool(n, gone)
    /\ condensed = NoStage

\* Game.update, lines 148-152
StageTick ==
    LET n == Len(collectables)
    IN  /\ condensed.ticks < MaxStageTicks
        /\ \E picks \in (IF n >= CONDENSE_THRESHOLD
                          THEN StagePicks(n) ELSE {<<>>}) :
               LET pool == IF n >= CONDENSE_THRESHOLD
                           THEN condense_sampled(collectables, picks)
                           ELSE collectables
               IN  /\ collectables' = pool
                   /\ condensed' = [ticks |-> condensed.ticks + 1,
                                    pool |-> collectables, picks |-> picks,
                                    after |-> pool]
        /\ UNCHANGED <<weaponVars, gameVars, actorVars>>

NextStage == StageTick

SpecStage == InitStage /\ [][NextStage]_vars

(* C30: a tick that finds fewer than CONDENSE_THRESHOLD collectables       *)
(* condenses nothing; a tick that finds more calls condense on the XP      *)
(* items of its sample only, which are CONDENSE_AMOUNT at most, with the   *)
(* distance CONDENSE_DISTANCE[min(len // CONDENSE_THRESHOLD - 1, 2)]: no   *)
(* item that is not XP changes, only the callers gain value, an item that  *)
(* changes is a caller or lies within that distance of one, and every      *)
(* other XP item within that distance of a caller is absorbed.             *)
C30_CondenseGatedSampledScaled ==
    condensed.ticks > 0 =>
        LET pre == condensed.pool
            post == condensed.after
            n == Len(pre)
            picked == {condensed.picks[i] : i \in DOMAIN condensed.picks}
            callers == {i \in picked : pre[i].kind = "XP"}
            d == CONDENSE_DISTANCE[Min(n \div CONDENSE_THRESHOLD - 1, 2) + 1]
        IN  IF n < CONDENSE_THRESHOLD
            THEN post = pre
            ELSE /\ Len(post) = n
                 /\ Cardinality(picked) <= CONDENSE_AMOUNT
                 /\ \A j \in 1..n :
                        /\ post[j].value # pre[j].value => j \in callers
                        /\ post[j] # pre[j] =>
                               /\ pre[j].kind = "XP"
                               /\ \/ j \in callers
                                  \/ \E i \in callers : within(pre[j], pre[i], d)
                 /\ \A i \in callers : \A j \in 1..n :
                        (j # i /\ pre[j].kind = "XP" /\ within(pre[j], pre[i], d))
                            => ~post[j].exists

C30_Witness ==
    /\ condensed.ticks > 0
    /\ Len(condensed.pool) = 4 * CONDENSE_THRESHOLD
    /\ \E i, j, c \in {condensed.picks[k] : k \in DOMAIN condensed.picks} :
           /\ condensed.pool[c].kind = "Cake"
           /\ condensed.pool[i].kind = "XP"
           /\ condensed.pool[j].kind = "XP"
           /\ condensed.pool[i].y_pos = condensed.pool[j].y_pos
           /\ condensed.pool[j].x_pos - condensed.pool[i].x_pos = CONDENSE_DISTANCE[3]
           /\ condensed.pool[j].exists /\ ~condensed.after[j].exists
           /\ condensed.after[i].value > condensed.pool[i].value

\* the sum of value over the XP items of places lo..hi that exist
RECURSIVE XpInPool(_, _, _)
XpInPool(pool, lo, hi) ==
    IF lo > hi THEN 0
    ELSE IF lo = hi
    THEN (IF pool[lo].kind = "XP" /\ pool[lo].exists THEN pool[lo].value ELSE 0)
    ELSE LET mid == (lo + hi) \div 2
         IN  XpInPool(pool, lo, mid) + XpInPool(pool, mid + 1, hi)

(* C34: the condensation of a tick loses no XP: the sum of value over the  *)
(* XP items that exist in the pool is after the sampled items' condense    *)
(* calls what it was before them.                                          *)
C34_CondenseKeepsXp ==
    condensed.ticks > 0 =>
        XpInPool(condensed.after, 1, Len(condensed.after))
            = XpInPool(condensed.pool, 1, Len(condensed.pool))

---------------------------------------------------------------------------
(* The spawn timer of a Game whose spawn rate is the tuple SPAWN_RATE of   *)
(* constants.py itself.  No monster is spawned, so the level-up menu is    *)
(* never opened; the escape key is not pressed, so the game is not paused. *)

TimerKeys == { NoKey, [NoKey EXCEPT !.space = TRUE] }

InitTimer ==
    /\ now = 0
    /\ weapon = <<>>
    /\ mob_list = <<>>
    /\ cycle = <<>>
    /\ swept = <<>>
    /\ call = <<>>
    /\ NoPool
    /\ NoActor
    /\ state = "MENU"
    /\ \E prog \in Progressions : \E lvl \in StartingLevels :
           game = Game(GameMobs, prog, lvl, RateTuple, 0)
    /\ time_paused = 0
    /\ level_up = NoLevelUp
    /\ trail = TrailStart

TimerInMenu == state = "MENU" /\ FrameWithin(MaxTimerFrames, TimerKeys)

TimerInPlay == state = "PLAY" /\ FrameWithin(MaxTimerFrames, TimerKeys)

TimerInGameOver == state = "GAME_OVER" /\ FrameWithin(MaxTimerFrames, TimerKeys)

NextTimer ==
    \/ TimerInMenu
    \/ TimerInPlay
    \/ TimerInGameOver

SpecTimer == InitTimer /\ [][NextTimer]_vars

(* C31: the spawn timer stays within 0..spawn rate: at every moment of a   *)
(* game the timer is at least 0 and at most one of the spawn rates of      *)
(* constants.py (the timer is reset to 0 each time it reaches the rate).   *)
C31_TimerWithinSpawnRate ==
    \E k \in 1..Len(SPAWN_RATE) : game.timer \in 0..SPAWN_RATE[k]

====
